---------------------------- MODULE Spec2Model ----------------------------
(***************************************************************************)
(* A model of the STFT round-trip spectral editor: the dual-layer          *)
(* SpectralMask and its brush, the mask applicator and overlap-add         *)
(* reconstruction of resynthesizeAudio, the glitch processor and the       *)
(* display downsampler (services/signalService, src/unnamed/part_000).     *)
(*                                                                         *)
(* Number representation.  The program computes in IEEE doubles and stores *)
(* the mask layers in Float32Array.  The model is in fixed point:          *)
(*   - dB values held by the mask are integers in milli-dB (mdB);          *)
(*   - the Gaussian brush weight w is an integer in 1/1000;                *)
(*   - brush radii, centres and slider values are the integers the UI      *)
(*     produces (sliders have step 1, canvas positions are rounded).       *)
(* Rounding to float32 is not modelled.                                    *)
(***************************************************************************)
EXTENDS Integers, Sequences, FiniteSets

VARIABLES
    mask,        \* the SpectralMask being edited: [F, B, gainDbLayer, generativeDbLayer]
    prevMask,    \* the mask as it was before the last applyBrush call
    stroke,      \* the arguments of the last applyBrush call, or NoStroke
    nStrokes,    \* the number of applyBrush calls made so far
    audioData,          \* audioDataRef.current: the decoded samples, or NoAudio
    complexStft,        \* fullComplexStft: the cached spectrogram, [bin][frame]
    stftRef,            \* the identity of the fullComplexStft array
    originalSpectrogram, \* the display data performStft returned
    transformParams,    \* the spectral edit and glitch switches and knobs
    job,                \* the resynthesizeAudio call started last, or Idle
    older,              \* the call before it while that is suspended, else Idle
    reconstructed,      \* what the last completed resynthesizeAudio returned
    pending,            \* the call the debounce timer of triggerResynthesis holds
    dispStft,    \* generateSpectrogramData: its stftResult argument
    dispData,    \* generateSpectrogramData: what it returned, or NoDisplay
    gSignal,     \* applyAudioGlitches: its signal argument
    gParams,     \* applyAudioGlitches: transformParams.audioGlitch
    gOutput,     \* applyAudioGlitches: the output buffer
    gCursor,     \* applyAudioGlitches: the chunk cursor i
    gState,      \* applyAudioGlitches: "loop" while in the chunk loop, "returned" after
    dNow,        \* debounce: the time, in ticks
    dT,          \* debounce: the closure variable t, a timer handle, 0 while undefined
    dTimers,     \* debounce: the timers window.setTimeout holds armed
    dCalls,      \* debounce: the calls of the debounced function so far, [time, args]
    dInvoked,    \* debounce: the invocations of fn so far, [time, args]
    params,      \* App: the params state, an StftParams
    fileLoad,    \* App: the handleFileChange call waiting for its decoder, with
                 \*      the params its closure holds, NoLoad while there is none
    audioBuffer, \* App: TRUE while the audioBuffer state holds a decoded file
    analysed,    \* App: the params of the last processAudio call, NoParams before
    pChanges,    \* the FFT-size changes made so far
    heap,        \* the Float32Array and SpectralMask objects made so far, each
                 \*      named by its place in its sequence
    appMask,     \* App: the spectralMask state, a mask of the heap, 0 while null
    isEditMode,  \* App: transformParams.spectralEdit.enabled as SpectrogramDisplay gets it
    isPainting,  \* SpectrogramDisplay: the isPainting state
    view,        \* SpectrogramDisplay: the mask, isPainting and isEditMode its
                 \*      handlers hold since the last render
    lastPointerPos, \* SpectrogramDisplay: lastPointerPosRef.current, NoPos while null
    emitted,     \* the masks handed to onMaskChange so far
    nPointer,    \* the pointer-down and pointer-move events so far
    dragOpen     \* TRUE from a primary-button pointer-down received with edit
                 \*      mode on and a mask present until the next pointer-up

maskVars == <<mask, prevMask, stroke, nStrokes>>
engineVars == <<audioData, complexStft, stftRef, originalSpectrogram,
                transformParams, job, older, reconstructed, pending>>
displayVars == <<dispStft, dispData>>
glitchVars == <<gSignal, gParams, gOutput, gCursor, gState>>
debounceVars == <<dNow, dT, dTimers, dCalls, dInvoked>>
paramVars == <<params, fileLoad, audioBuffer, analysed, pChanges>>
paintVars == <<heap, appMask, isEditMode, isPainting, view, lastPointerPos,
               emitted, nPointer, dragOpen>>
uiVars == <<debounceVars, paramVars, paintVars>>

vars == <<mask, prevMask, stroke, nStrokes, audioData, complexStft, stftRef,
          originalSpectrogram, transformParams, job, older, reconstructed,
          pending, dispStft, dispData, gSignal, gParams, gOutput, gCursor, gState,
          dNow, dT, dTimers, dCalls, dInvoked,
          params, fileLoad, audioBuffer, analysed, pChanges,
          heap, appMask, isEditMode, isPainting, view, lastPointerPos, emitted,
          nPointer, dragOpen>>

-----------------------------------------------------------------------------
(* Bounds of the mask model *)

GridF == 4        \* frames of the painted mask
GridB == 3        \* bins of the painted mask
MaxStrokes == 3   \* applyBrush calls in one behaviour

(* Scales of the fixed-point representation *)
MilliDb == 10 * 100   \* mdB per dB
WScale == 10 * 100    \* the weight w = 1.0
ExpScale == 100 * 100 \* scale of the exponential series
ExpTerms == 4 * 4    \* terms of the exponential series

-----------------------------------------------------------------------------
(* Arithmetic helpers *)

Max(a, b) == IF a >= b THEN a ELSE b
Min(a, b) == IF a <= b THEN a ELSE b
Abs(a) == IF a >= 0 THEN a ELSE -a

(* Math.round on a quarter of a non-negative integer: round(n / 4), halves up *)
RoundQuarter(n) == (n + 2) \div 4

(* e^x at scale ExpScale for x >= 0 given in 1/1000: the power series *)
RECURSIVE ExpSeries(_, _, _)
ExpSeries(xMilli, n, term) ==
    IF n > ExpTerms \/ term = 0 THEN 0
    ELSE term + ExpSeries(xMilli, n + 1, (term * xMilli) \div (n * 1000))

ExpPos(xMilli) == ExpSeries(xMilli, 1, ExpScale)

(* Math.exp(-2.7726 * distSq) at scale WScale, distSq = num / den; beyond
   distSq = 1 it is computed as the square of the weight at half the
   distance, which keeps the series within 32 bits *)
RECURSIVE GaussWeight(_, _)
GaussWeight(num, den) ==
    IF num > den
    THEN LET half == GaussWeight(num, 2 * den) IN (half * half) \div WScale
    ELSE LET xMilli == (27726 * num) \div (10 * den)
         IN  (WScale * ExpScale) \div ExpPos(xMilli)

-----------------------------------------------------------------------------
(* SpectralMask *)

NeutralGain == 0
NeutralGenerative == -999 * MilliDb

NewMask(F, B) ==
    [ F |-> F, B |-> B,
      gainDbLayer |-> [i \in 0 .. (F * B - 1) |-> NeutralGain],
      generativeDbLayer |-> [i \in 0 .. (F * B - 1) |-> NeutralGenerative] ]

Idx(m, f, b) == f * m.B + b

(* a frame radius one frame too wide *)
RadiusFWide(radiusB) == Max(2, RoundQuarter(radiusB)) + 1

(* const radiusF = Math.max(2, Math.round(radiusB / 4)) *)
RadiusF(radiusB) == Max(2, RoundQuarter(radiusB))

(* numerator and denominator of distSq = df^2 + db^2 for cell (f, b) *)
DistDen(radiusB) ==
    LET rF == IF RadiusF(radiusB) = 0 THEN 1 ELSE RadiusF(radiusB)
        rB == IF radiusB = 0 THEN 1 ELSE radiusB
    IN  rF * rF * rB * rB

DistNum(f, b, centerF, centerB, radiusB) ==
    LET rF == IF RadiusF(radiusB) = 0 THEN 1 ELSE RadiusF(radiusB)
        rB == IF radiusB = 0 THEN 1 ELSE radiusB
    IN  (f - centerF) * (f - centerF) * rB * rB
          + (b - centerB) * (b - centerB) * rF * rF

(* the loop bounds f0..f1, b0..b1 of applyBrush *)
InBox(m, f, b, centerF, centerB, radiusB) ==
    /\ f >= Max(0, centerF - RadiusF(radiusB))
    /\ f <= Min(m.F - 1, centerF + RadiusF(radiusB))
    /\ b >= Max(0, centerB - radiusB)
    /\ b <= Min(m.B - 1, centerB + radiusB)

(* the footprint without the ellipse test: the whole bounding box *)
InFootprintBoxOnly(m, f, b, centerF, centerB, radiusB) ==
    InBox(m, f, b, centerF, centerB, radiusB)

(* if (distSq <= 1) *)
InFootprint(m, f, b, centerF, centerB, radiusB) ==
    /\ InBox(m, f, b, centerF, centerB, radiusB)
    /\ DistNum(f, b, centerF, centerB, radiusB) <= DistDen(radiusB)

(* subtractive erase: layer[idx] = Math.min(0, currentDb + (-gainDb) * w) *)
EraseSubtractive(currentDb, gainDb, w) ==
    Min(0, currentDb + (-gainDb) * w)

(* a sign slip in the paint update: currentDb - gainDb * w *)
PaintSubtractiveSignSlip(currentDb, gainDb, w) ==
    Max(-80 * MilliDb, Min(24 * MilliDb, currentDb - gainDb * w))

(* subtractive paint: layer[idx] = Math.max(-80, Math.min(24, currentDb + gainDb * w)) *)
PaintSubtractive(currentDb, gainDb, w) ==
    Max(-80 * MilliDb, Min(24 * MilliDb, currentDb + gainDb * w))

(* a generative paint that adds the stroke to a cell already painted *)
PaintGenerativeAdditive(currentDb, gainDb, w) ==
    IF currentDb > NeutralGenerative
    THEN currentDb + 6 * MilliDb
    ELSE gainDb * MilliDb - (WScale - w) * 20

(* generative paint: layer[idx] = Math.max(layer[idx], targetDb - (1 - w) * 20) *)
PaintGenerative(currentDb, gainDb, w) ==
    Max(currentDb, gainDb * MilliDb - (WScale - w) * 20)

(* a generative erase feathered like the subtractive one *)
BrushCellFeatheredErase(currentDb, num, den, gainDb, isErase, brushMode) ==
    IF isErase
    THEN IF brushMode = "generative"
         THEN currentDb + ((NeutralGenerative - currentDb) * GaussWeight(num, den)) \div WScale
         ELSE EraseSubtractive(currentDb, gainDb, GaussWeight(num, den))
    ELSE IF brushMode = "subtractive"
         THEN PaintSubtractive(currentDb, gainDb, GaussWeight(num, den))
         ELSE PaintGenerative(currentDb, gainDb, GaussWeight(num, den))

(* the value one cell inside the footprint gets *)
BrushCell(currentDb, num, den, gainDb, isErase, brushMode) ==
    IF isErase
    THEN IF brushMode = "generative"
         THEN NeutralGenerative
         ELSE EraseSubtractive(currentDb, gainDb, GaussWeight(num, den))
    ELSE IF brushMode = "subtractive"
         THEN PaintSubtractive(currentDb, gainDb, GaussWeight(num, den))
         ELSE PaintGenerative(currentDb, gainDb, GaussWeight(num, den))

BrushLayer(m, layer, centerF, centerB, radiusB, gainDb, isErase, brushMode) ==
    [ i \in 0 .. (m.F * m.B - 1) |->
        LET f == i \div m.B
            b == i % m.B
        IN  IF InFootprint(m, f, b, centerF, centerB, radiusB)
            THEN BrushCell(layer[Idx(m, f, b)],
                           DistNum(f, b, centerF, centerB, radiusB),
                           DistDen(radiusB), gainDb, isErase, brushMode)
            ELSE layer[i] ]

(* a brush that writes the stroke into both layers *)
ApplyBrushBothLayers(m, centerF, centerB, radiusB, gainDb, isErase, brushMode) ==
    [m EXCEPT !.gainDbLayer =
                 BrushLayer(m, m.gainDbLayer, centerF, centerB, radiusB,
                            gainDb, isErase, brushMode),
              !.generativeDbLayer =
                 BrushLayer(m, m.generativeDbLayer, centerF, centerB, radiusB,
                            gainDb, isErase, brushMode)]

ApplyBrush(m, centerF, centerB, radiusB, gainDb, isErase, brushMode) ==
    IF brushMode = "subtractive"
    THEN [m EXCEPT !.gainDbLayer =
            BrushLayer(m, m.gainDbLayer, centerF, centerB, radiusB,
                       gainDb, isErase, brushMode)]
    ELSE [m EXCEPT !.generativeDbLayer =
            BrushLayer(m, m.generativeDbLayer, centerF, centerB, radiusB,
                       gainDb, isErase, brushMode)]

-----------------------------------------------------------------------------
(* The brush inputs of the mask model *)

NoStroke == [mode |-> "none"]

(* brush gain / loudness values: the ends of the sliders and the defaults *)
SubtractiveGains == {-60, 12}
GenerativeGains == {-24, 0}
BrushRadii == {2}
BrushCenters == {<<0, 0>>, <<1, 1>>}

Strokes ==
    [ centerF : {c[1] : c \in BrushCenters}, centerB : {c[2] : c \in BrushCenters},
      radiusB : BrushRadii, gainDb : SubtractiveGains,
      isErase : BOOLEAN, mode : {"subtractive"} ]
    \cup
    [ centerF : {c[1] : c \in BrushCenters}, centerB : {c[2] : c \in BrushCenters},
      radiusB : BrushRadii, gainDb : GenerativeGains,
      isErase : {FALSE}, mode : {"generative"} ]
    \cup
    [ centerF : {c[1] : c \in BrushCenters}, centerB : {c[2] : c \in BrushCenters},
      radiusB : BrushRadii, gainDb : GenerativeGains,
      isErase : {TRUE}, mode : {"generative"} ]

NoAudio == << >>
NoResult == [length |-> -1]
NoDisplay == [data |-> "none"]
Idle == [state |-> "idle"]

(* the state of the parts a specification leaves out *)
EngineOff ==
    /\ audioData = NoAudio /\ complexStft = << >> /\ stftRef = 0
    /\ originalSpectrogram = NoDisplay
    /\ transformParams = [spectralEdit |-> FALSE, glitch |-> FALSE]
    /\ job = Idle /\ older = Idle /\ reconstructed = NoResult
    /\ pending = [armed |-> FALSE]
DisplayOff == dispStft = << >> /\ dispData = NoDisplay
GlitchOff ==
    /\ gSignal = << >> /\ gParams = [enabled |-> FALSE] /\ gOutput = << >>
    /\ gCursor = 0 /\ gState = "off"
MaskOff ==
    /\ mask = NewMask(0, 0) /\ prevMask = NewMask(0, 0)
    /\ stroke = NoStroke /\ nStrokes = 0
DebounceOff ==
    /\ dNow = 0 /\ dT = 0 /\ dTimers = {} /\ dCalls = << >> /\ dInvoked = << >>
NoLoad == [state |-> "none"]
NoParams == [nfft |-> 0]
DEFAULT_PARAMS ==
    [sr |-> 44100, duration |-> 1, nfft |-> 1024, hopLength |-> 512, window |-> "hann"]
ParamsOff ==
    /\ params = DEFAULT_PARAMS /\ fileLoad = NoLoad /\ audioBuffer = FALSE
    /\ analysed = NoParams /\ pChanges = 0
NoPos == <<-1, -1>>
EmptyHeap == [arrays |-> << >>, masks |-> << >>]
NoView == [mask |-> 0, isPainting |-> FALSE, isEditMode |-> FALSE]
PaintOff ==
    /\ heap = EmptyHeap /\ appMask = 0 /\ isEditMode = FALSE /\ isPainting = FALSE
    /\ view = NoView /\ lastPointerPos = NoPos /\ emitted = << >> /\ nPointer = 0
    /\ dragOpen = FALSE
UiOff == DebounceOff /\ ParamsOff /\ PaintOff

MaskInit ==
    /\ mask = NewMask(GridF, GridB)
    /\ prevMask = NewMask(GridF, GridB)
    /\ stroke = NoStroke
    /\ nStrokes = 0
    /\ EngineOff /\ DisplayOff /\ GlitchOff /\ UiOff

(* one applyBrush call on the mask *)
Brush ==
    /\ nStrokes < MaxStrokes
    /\ \E s \in Strokes :
          /\ <<s.centerF, s.centerB>> \in BrushCenters
          /\ mask' = ApplyBrush(mask, s.centerF, s.centerB, s.radiusB,
                                s.gainDb, s.isErase, s.mode)
          /\ stroke' = s
    /\ prevMask' = mask
    /\ nStrokes' = nStrokes + 1
    /\ UNCHANGED <<engineVars, displayVars, glitchVars, uiVars>>

MaskNext == Brush

SpecMask == MaskInit /\ [][MaskNext]_vars

-----------------------------------------------------------------------------
(* Properties of the brush, checked under SpecMask *)

Cells(m) == {<<f, b>> : f \in 0 .. (m.F - 1), b \in 0 .. (m.B - 1)}
GainAt(m, f, b) == m.gainDbLayer[Idx(m, f, b)]
GenAt(m, f, b) == m.generativeDbLayer[Idx(m, f, b)]
Stroked == stroke.mode # "none"
CenterInGrid == Stroked /\ <<stroke.centerF, stroke.centerB>> \in Cells(mask)

(* C1: after any sequence of applyBrush calls every gain cell is within
   [-80, 24] dB and every generative cell within [-999, 0] dB. *)
C1_ClampInvariant ==
    \A c \in Cells(mask) :
        /\ GainAt(mask, c[1], c[2]) >= -80 * MilliDb
        /\ GainAt(mask, c[1], c[2]) <= 24 * MilliDb
        /\ GenAt(mask, c[1], c[2]) >= -999 * MilliDb
        /\ GenAt(mask, c[1], c[2]) <= 0

SubtractivePaintBelowZero ==
    /\ CenterInGrid
    /\ stroke.mode = "subtractive" /\ ~stroke.isErase /\ stroke.gainDb < 0

(* C2 as stated: a subtractive paint stroke with gain g < 0 centred on an
   in-grid cell leaves gain[center] strictly lower than before the stroke. *)
C2_StrictDecreaseAtCenter ==
    SubtractivePaintBelowZero =>
        GainAt(mask, stroke.centerF, stroke.centerB)
            < GainAt(prevMask, stroke.centerF, stroke.centerB)

(* C2 amended: such a stroke leaves gain[center] strictly lower than before,
   and not below -80 dB, whenever gain[center] was above -80 dB before the
   stroke; a centre cell at or below -80 dB is left at exactly -80 dB. *)
C2_DecreaseAboveFloor ==
    SubtractivePaintBelowZero =>
        LET before == GainAt(prevMask, stroke.centerF, stroke.centerB)
            after == GainAt(mask, stroke.centerF, stroke.centerB)
        IN  IF before > -80 * MilliDb
            THEN after < before /\ after >= -80 * MilliDb
            ELSE after = -80 * MilliDb

(* C2 witness: a stroke of that kind has lowered an already painted centre *)
C2_Witness ==
    /\ SubtractivePaintBelowZero
    /\ GainAt(prevMask, stroke.centerF, stroke.centerB) < 0
    /\ GainAt(mask, stroke.centerF, stroke.centerB)
          < GainAt(prevMask, stroke.centerF, stroke.centerB)

(* the normalized distance of cell (f, b) from the stroke centre exceeds 1,
   with frameRadius = max(2, round(radiusB / 4)) *)
BeyondEllipse(f, b) ==
    LET frameRadius == Max(2, (stroke.radiusB + 2) \div 4)
        dF == f - stroke.centerF
        dB == b - stroke.centerB
    IN  dF * dF * stroke.radiusB * stroke.radiusB + dB * dB * frameRadius * frameRadius
          > frameRadius * frameRadius * stroke.radiusB * stroke.radiusB

(* C3: every applyBrush call leaves every cell whose normalized distance from
   the centre is greater than 1 with the gain and the generative value it had
   before the call. *)
C3_FootprintFrame ==
    Stroked =>
        \A c \in Cells(mask) :
            BeyondEllipse(c[1], c[2]) =>
                /\ GainAt(mask, c[1], c[2]) = GainAt(prevMask, c[1], c[2])
                /\ GenAt(mask, c[1], c[2]) = GenAt(prevMask, c[1], c[2])

(* C3 witness: a stroke changed the mask while a cell of its bounding box
   lies beyond the ellipse *)
C3_Witness ==
    /\ Stroked
    /\ mask # prevMask
    /\ \E c \in Cells(mask) :
          /\ BeyondEllipse(c[1], c[2])
          /\ InBox(mask, c[1], c[2], stroke.centerF, stroke.centerB, stroke.radiusB)

FirstGenerativeStroke ==
    /\ nStrokes = 1 /\ CenterInGrid
    /\ stroke.mode = "generative" /\ ~stroke.isErase /\ stroke.gainDb = -24

(* C4 as stated: on an all-neutral mask one generative paint stroke at -24 dB
   sets generative[center] to -24 and leaves at -999 every cell whose bin
   distance exceeds radiusBins or whose frame distance exceeds radiusBins/4. *)
C4_GenerativeStrokeQuarterRadius ==
    FirstGenerativeStroke =>
        /\ GenAt(mask, stroke.centerF, stroke.centerB) = -24 * MilliDb
        /\ \A c \in Cells(mask) :
              (\/ Abs(c[2] - stroke.centerB) > stroke.radiusB
               \/ 4 * Abs(c[1] - stroke.centerF) > stroke.radiusB)
                 => GenAt(mask, c[1], c[2]) = NeutralGenerative

(* C4 amended: the same, with the frame distance compared to the brush's
   frame radius max(2, round(radiusBins / 4)) instead of radiusBins / 4. *)
C4_GenerativeStrokeFrameRadius ==
    FirstGenerativeStroke =>
        /\ GenAt(mask, stroke.centerF, stroke.centerB) = -24 * MilliDb
        /\ \A c \in Cells(mask) :
              (\/ Abs(c[2] - stroke.centerB) > stroke.radiusB
               \/ Abs(c[1] - stroke.centerF) > Max(2, (stroke.radiusB + 2) \div 4))
                 => GenAt(mask, c[1], c[2]) = NeutralGenerative

(* C4 witness: the first stroke is such a generative stroke, it painted the
   centre, and a cell of the grid lies more than the frame radius away *)
C4_Witness ==
    /\ FirstGenerativeStroke
    /\ GenAt(mask, stroke.centerF, stroke.centerB) > NeutralGenerative
    /\ \E c \in Cells(mask) :
          /\ Abs(c[1] - stroke.centerF) > Max(2, (stroke.radiusB + 2) \div 4)
          /\ GenAt(mask, c[1], c[2]) = NeutralGenerative

(* C19: applyBrush writes one layer only: a stroke in subtractive mode
   leaves every cell of the generative layer as it was, a stroke in
   generative mode leaves every cell of the gain layer as it was, for paint
   and for erase, and F and B never change. *)
C19_OneLayerOnly ==
    nStrokes > 0
        => /\ mask.F = prevMask.F /\ mask.B = prevMask.B
           /\ stroke.mode = "subtractive"
                 => mask.generativeDbLayer = prevMask.generativeDbLayer
           /\ stroke.mode = "generative"
                 => mask.gainDbLayer = prevMask.gainDbLayer

(* a generative stroke has changed the generative layer of a mask whose
   gain layer an earlier subtractive stroke had painted *)
C19_Witness ==
    /\ nStrokes > 1
    /\ stroke.mode = "generative"
    /\ mask.generativeDbLayer # prevMask.generativeDbLayer
    /\ prevMask.gainDbLayer # NewMask(GridF, GridB).gainDbLayer
    /\ prevMask.generativeDbLayer # NewMask(GridF, GridB).generativeDbLayer
    /\ mask.gainDbLayer = prevMask.gainDbLayer

SubtractiveErase ==
    Stroked /\ stroke.mode = "subtractive" /\ stroke.isErase

(* C21: for every cell inside the footprint of a subtractive erase stroke,
   the gain after the stroke is at most 0 and is not farther from 0 than
   the gain before the stroke, for every brush value of the slider. *)
C21_EraseTowardZero ==
    SubtractiveErase =>
        \A c \in Cells(mask) :
            InFootprint(mask, c[1], c[2], stroke.centerF, stroke.centerB, stroke.radiusB)
                => /\ GainAt(mask, c[1], c[2]) <= 0
                   /\ Abs(GainAt(mask, c[1], c[2])) <= Abs(GainAt(prevMask, c[1], c[2]))

GenerativeErase ==
    Stroked /\ stroke.mode = "generative" /\ stroke.isErase

(* C22: after a generative erase stroke every cell with normalized distance
   at most 1 from the centre holds -999, whatever the stroke value, the
   cell's value before and its distance from the centre are. *)
C22_HardErase ==
    GenerativeErase =>
        \A c \in Cells(mask) :
            ~BeyondEllipse(c[1], c[2]) => GenAt(mask, c[1], c[2]) = -999 * MilliDb

(* a generative erase has reset a painted cell away from its centre *)
C22_Witness ==
    /\ GenerativeErase
    /\ \E c \in Cells(mask) :
          /\ c # <<stroke.centerF, stroke.centerB>>
          /\ ~BeyondEllipse(c[1], c[2])
          /\ GenAt(prevMask, c[1], c[2]) > -999 * MilliDb
          /\ GenAt(mask, c[1], c[2]) = -999 * MilliDb

GenerativePaint ==
    Stroked /\ stroke.mode = "generative" /\ ~stroke.isErase

(* the stroke's feathered target at cell (f, b): targetDb - (1 - w) * 20 *)
FeatheredTarget(f, b) ==
    stroke.gainDb * MilliDb
        - (WScale - GaussWeight(DistNum(f, b, stroke.centerF, stroke.centerB, stroke.radiusB),
                                DistDen(stroke.radiusB))) * 20

(* C23: a generative paint stroke never lowers a cell of the generative
   layer, a cell inside the footprint ends at the larger of its value before
   and the stroke's feathered target, and no cell ends above both its value
   before and the stroke's loudness, so strokes of loudness at most L never
   raise a cell above L. *)
C23_PaintIsCeiling ==
    GenerativePaint =>
        \A c \in Cells(mask) :
            /\ GenAt(mask, c[1], c[2]) >= GenAt(prevMask, c[1], c[2])
            /\ GenAt(mask, c[1], c[2])
                  <= Max(GenAt(prevMask, c[1], c[2]), stroke.gainDb * MilliDb)
            /\ ~BeyondEllipse(c[1], c[2])
                  => GenAt(mask, c[1], c[2])
                        = Max(GenAt(prevMask, c[1], c[2]), FeatheredTarget(c[1], c[2]))

(* a generative paint stroke over an earlier, louder one: one cell of the
   footprint keeps its louder value, another is raised to a feathered
   target below the stroke's loudness *)
C23_Witness ==
    /\ GenerativePaint
    /\ \E c \in Cells(mask) :
          /\ ~BeyondEllipse(c[1], c[2])
          /\ GenAt(prevMask, c[1], c[2]) > FeatheredTarget(c[1], c[2])
          /\ GenAt(prevMask, c[1], c[2]) > -999 * MilliDb
          /\ GenAt(mask, c[1], c[2]) = GenAt(prevMask, c[1], c[2])
    /\ \E c \in Cells(mask) :
          /\ GenAt(mask, c[1], c[2]) > GenAt(prevMask, c[1], c[2])
          /\ GenAt(mask, c[1], c[2]) < stroke.gainDb * MilliDb

(* the mask after the last stroke is applied a second time *)
StrokeTwice ==
    ApplyBrush(mask, stroke.centerF, stroke.centerB, stroke.radiusB, stroke.gainDb,
               stroke.isErase, stroke.mode)

(* the gain cell holds the clamp value of the last stroke's kind *)
AtClamp(f, b) ==
    IF stroke.isErase THEN GainAt(mask, f, b) = 0
    ELSE GainAt(mask, f, b) \in {-80 * MilliDb, 24 * MilliDb}

(* C24: applying the same stroke a second time leaves unchanged every cell
   the first application brought to its limit: a generative paint or erase
   stroke applied twice gives the mask it gives applied once, and a
   subtractive stroke leaves a cell at its clamp (-80 or 24 for paint, 0 for
   erase) unchanged. *)
C24_IdempotentPerCall ==
    Stroked =>
        IF stroke.mode = "generative" THEN StrokeTwice = mask
        ELSE \A c \in Cells(mask) :
                AtClamp(c[1], c[2]) => GainAt(StrokeTwice, c[1], c[2]) = GainAt(mask, c[1], c[2])

-----------------------------------------------------------------------------
(* The analysis / resynthesis engine.

   Arrays are functions on 0 .. n-1, as the program indexes them.  Samples are
   integers in units of 1/Amp; the Hann window is held in quarters, so a
   spectrogram cell is in units of 1/(4 Amp), the overlap-add buffer in
   1/(16 Amp) and windowSum in 1/16.

   The transform is the nfft-point DFT for nfft = 4, whose twiddle factors
   (1, -i, -1, i) and whose Hann window (0, 3/4, 3/4, 0) are exact in
   integers.  The program runs it with nfft in {256 .. 8192}. *)

Length(a) == Cardinality(DOMAIN a)

nfft == 4                 \* params.nfft
hopLength == nfft \div 2  \* params.hopLength
sr == 44100               \* params.sr
Amp == 10 * 100            \* the sample value 1.0

(* cos and sin of q * pi / 2 *)
CosQuarter(q) == CASE q % 4 = 0 -> 1 [] q % 4 = 1 -> 0 [] q % 4 = 2 -> -1 [] OTHER -> 0
SinQuarter(q) == CASE q % 4 = 0 -> 0 [] q % 4 = 1 -> 1 [] q % 4 = 2 -> 0 [] OTHER -> -1

(* 2 cos(2 pi i / 3) for i in 0 .. 3 *)
TwoCosThirds(i) == IF i % 3 = 0 THEN 2 ELSE -1

(* getHannWindow(nfft): window[i] = 0.5 * (1 - cos(2 pi i / (nfft - 1))), in quarters *)
HannWindow == [i \in 0 .. (nfft - 1) |-> 2 - TwoCosThirds(i)]

RECURSIVE SumTo(_, _)
(* the sum of f[0] .. f[n-1] *)
SumTo(f, n) == IF n = 0 THEN 0 ELSE f[n - 1] + SumTo(f, n - 1)

(* fft.transform: X[k] = sum_n x[n] e^{-2 pi i n k / nfft}, x complex *)
Transform(x) ==
    [k \in 0 .. (nfft - 1) |->
        << SumTo([n \in 0 .. (nfft - 1) |->
                    x[n][1] * CosQuarter(n * k) + x[n][2] * SinQuarter(n * k)], nfft),
           SumTo([n \in 0 .. (nfft - 1) |->
                    x[n][2] * CosQuarter(n * k) - x[n][1] * SinQuarter(n * k)], nfft) >>]

(* fft.inverseTransform: x[n] = (1 / nfft) sum_k X[k] e^{+2 pi i n k / nfft} *)
InverseTransform(X) ==
    [n \in 0 .. (nfft - 1) |->
        << SumTo([k \in 0 .. (nfft - 1) |->
                    X[k][1] * CosQuarter(n * k) - X[k][2] * SinQuarter(n * k)], nfft)
              \div nfft,
           SumTo([k \in 0 .. (nfft - 1) |->
                    X[k][2] * CosQuarter(n * k) + X[k][1] * SinQuarter(n * k)], nfft)
              \div nfft >>]

(* transpose: [] for an empty matrix or one with empty rows *)
Transpose(matrix) ==
    IF Length(matrix) = 0 THEN << >>
    ELSE IF Length(matrix[0]) = 0 THEN << >>
    ELSE [c \in 0 .. (Length(matrix[0]) - 1) |->
            [r \in 0 .. (Length(matrix) - 1) |-> matrix[r][c]]]

RECURSIVE FrameStartsBeforeLast(_, _)
(* a loop that stops one block early: i < signal.length - nfft *)
FrameStartsBeforeLast(i, length) ==
    IF i < length - nfft THEN <<i>> \o FrameStartsBeforeLast(i + hopLength, length)
    ELSE << >>

RECURSIVE FrameStarts(_, _)
(* the values i takes in: for (i = 0; i <= signal.length - nfft; i += hopLength) *)
FrameStarts(i, length) ==
    IF i <= length - nfft THEN <<i>> \o FrameStarts(i + hopLength, length) ELSE << >>

(* one windowed frame transformed and cut to its first nfft / 2 + 1 bins *)
StftFrame(signal, start) ==
    LET windowedFrame == [j \in 0 .. (nfft - 1) |-> <<signal[start + j] * HannWindow[j], 0>>]
        freqData == Transform(windowedFrame)
    IN  [k \in 0 .. (nfft \div 2) |-> freqData[k]]

(* stft: the spectrogram, indexed [bin][frame] *)
Stft(signal) ==
    LET starts == FrameStarts(0, Length(signal))
        Zxx == [k \in 0 .. (Length(starts) - 1) |-> StftFrame(signal, starts[k + 1])]
    IN  Transpose(Zxx)

-----------------------------------------------------------------------------
(* resynthesizeAudio: mask application *)

GainScale == 10 * 100      \* the linear gain 1.0
FullScale == 4 * Amp       \* the spectrogram magnitude 1.0

RECURSIVE Pow10(_)
Pow10(k) == IF k = 0 THEN 1 ELSE 10 * Pow10(k - 1)

(* floor(a / b) for b > 0, also for negative a *)
FloorDiv(a, b) == a \div b

(* a linear gain taken for the dB value itself *)
DbToGainUnconverted(dbMilli) == dbMilli

(* Math.pow(10, db / 20) at scale GainScale, db in mdB:
   10^(k + r) with k an integer and 0 <= r < 1, 10^r = e^(r ln 10) *)
DbToGain(dbMilli) ==
    LET k == FloorDiv(dbMilli, 20 * MilliDb)
        r == dbMilli - k * 20 * MilliDb
        mant == ExpPos((r * 2303) \div (20 * MilliDb))
    IN  IF k >= 0 THEN (mant * Pow10(k) * GainScale) \div ExpScale
        ELSE IF k < -8 THEN 0
        ELSE (mant * GainScale) \div (ExpScale * Pow10(-k))

(* the edited value of one cell: (original * gain) + generative *)
EditedCell(c, gainDb, genDb, phase) ==
    LET gain == DbToGain(gainDb)
        mag == (DbToGain(genDb) * FullScale) \div GainScale
    IN  IF genDb > -900 * MilliDb
        THEN << (c[1] * gain) \div GainScale + mag * CosQuarter(phase),
                (c[2] * gain) \div GainScale + mag * SinQuarter(phase) >>
        ELSE << (c[1] * gain) \div GainScale, (c[2] * gain) \div GainScale >>

(* a mask cell applied whether or not spectral editing is enabled *)
MaskCellAlwaysEdited(c, m, maskIdx, spectralEditEnabled, phases) ==
    EditedCell(c, m.gainDbLayer[maskIdx], m.generativeDbLayer[maskIdx], phases[maskIdx])

(* the body of the (b, f) loop: one cell of maskedStft.  phases[maskIdx] is
   the quarter turn drawn by Math.random() * 2 * Math.PI for the cell *)
MaskCell(c, m, maskIdx, spectralEditEnabled, phases) ==
    IF spectralEditEnabled
    THEN EditedCell(c, m.gainDbLayer[maskIdx], m.generativeDbLayer[maskIdx],
                    phases[maskIdx])
    ELSE << c[1], c[2] >>

(* maskedStft, from numBins = stft.length and numFrames = stft[0].length *)
MaskedStft(originalComplexStft, m, spectralEditEnabled, phases) ==
    LET numBins == Length(originalComplexStft)
        numFrames == IF numBins > 0 THEN Length(originalComplexStft[0]) ELSE 0
    IN  [b \in 0 .. (numBins - 1) |->
            [f \in 0 .. (numFrames - 1) |->
                MaskCell(originalComplexStft[b][f], m, Idx(m, f, b),
                         spectralEditEnabled, phases)]]

(* the array handed to istftCooperative when the disabled case is short-cut *)
MaskedStftRefShortcut(spectralEditEnabled, originalRef, freshRef) ==
    IF spectralEditEnabled THEN freshRef ELSE originalRef

(* the identity of the array handed to istftCooperative: maskedStft is built
   by Array.from, a new array whatever the switches are *)
(* the cells written into the source spectrogram's own arrays *)
MaskedStftRefInPlace(spectralEditEnabled, originalRef, freshRef) == originalRef

MaskedStftRef(spectralEditEnabled, originalRef, freshRef) == freshRef

-----------------------------------------------------------------------------
(* istftCooperative *)

(* fullFrame: the half spectrum followed by the conjugates of bins
   frame.length - 2 down to 1 *)
FullFrame(frame) ==
    LET nb == Length(frame)
    IN  [j \in 0 .. (2 * nb - 3) |->
            IF j < nb THEN frame[j]
            ELSE << frame[2 * (nb - 1) - j][1], -frame[2 * (nb - 1) - j][2] >>]

(* realTimeFrame: the real parts of the inverse transform of fullFrame *)
RealTimeFrame(frame) ==
    LET timeDomainOutput == InverseTransform(FullFrame(frame))
    IN  [i \in 0 .. (nfft - 1) |-> timeDomainOutput[i][1]]

(* the overlap-add of frame frameIndex into the two buffers *)
OverlapAdd(buf, Zxx, frameIndex, originalLength) ==
    LET rtf == RealTimeFrame(Zxx[frameIndex])
        offset == frameIndex * hopLength
        hit(n) == n >= offset /\ n < offset + nfft /\ n < originalLength
    IN  [ reconstructedSignal |->
            [n \in 0 .. (originalLength - 1) |->
                IF hit(n)
                THEN buf.reconstructedSignal[n] + rtf[n - offset] * HannWindow[n - offset]
                ELSE buf.reconstructedSignal[n]],
          windowSum |->
            [n \in 0 .. (originalLength - 1) |->
                IF hit(n)
                THEN buf.windowSum[n] + HannWindow[n - offset] * HannWindow[n - offset]
                ELSE buf.windowSum[n]] ]

(* windowSum[i] > 1e-9, windowSum in sixteenths *)
AboveEpsilon(ws) == ws > 0

(* the normalization loop; the result is in sample units *)
Normalize(buf) ==
    [n \in DOMAIN buf.reconstructedSignal |->
        IF AboveEpsilon(buf.windowSum[n])
        THEN buf.reconstructedSignal[n] \div buf.windowSum[n]
        ELSE buf.reconstructedSignal[n] \div 16]

ZeroBuffer(length) == [n \in 0 .. (length - 1) |-> 0]

-----------------------------------------------------------------------------
(* applyAudioGlitches *)

chunkSize == 512

(* Math.floor(sr * (glitch.stutterDuration / 1000)) *)
StutterDurationSamples(stutterDurationMs) == (sr * stutterDurationMs) \div 1000

(* the outcomes of Math.random() < chance, chance in percent *)
RandomBelow(chancePct) ==
    IF chancePct <= 0 THEN {FALSE} ELSE IF chancePct >= 100 THEN {TRUE} ELSE BOOLEAN


(* a stutter that runs on past the chunk instead of repeating it *)
StutterUnwrapped(output, i, stutterDurationSamples) ==
    LET from == Max(0, i - chunkSize)
        chunkLength == i - from
    IN  IF chunkLength > 0
        THEN [n \in DOMAIN output |->
                IF n >= i /\ n < i + stutterDurationSamples
                THEN output[from + (n - i)]
                ELSE output[n]]
        ELSE output

(* the stutter of one iteration: output[i + s] = stutterChunk[s % length] for
   s < stutterDurationSamples, stutterChunk = output.slice(max(0, i - 512), i) *)
Stutter(output, i, stutterDurationSamples) ==
    LET from == Max(0, i - chunkSize)
        chunkLength == i - from
    IN  IF chunkLength > 0
        THEN [n \in DOMAIN output |->
                IF n >= i /\ n < i + stutterDurationSamples
                THEN output[from + ((n - i) % chunkLength)]
                ELSE output[n]]
        ELSE output

(* the cursor after the stutter block: i += stutterDurationSamples - chunkSize *)
StutterCursor(i, stutterDurationSamples) ==
    IF i - Max(0, i - chunkSize) > 0 THEN i + stutterDurationSamples - chunkSize ELSE i

(* a drop that spares the last sample of the chunk *)
DropShort(output, i) ==
    [n \in DOMAIN output |-> IF n >= i /\ n < i + chunkSize - 1 THEN 0 ELSE output[n]]

(* the drop of one iteration: output[i + j] = 0 for j < chunkSize, i + j < length *)
Drop(output, i) ==
    [n \in DOMAIN output |-> IF n >= i /\ n < i + chunkSize THEN 0 ELSE output[n]]

(* one iteration of the chunk loop, the cursor's i += chunkSize included *)
GlitchIteration(output, i, stutterDurationSamples, stutterFires, dropFires) ==
    LET afterStutter == IF stutterFires THEN Stutter(output, i, stutterDurationSamples)
                        ELSE output
        cursor == IF stutterFires THEN StutterCursor(i, stutterDurationSamples) ELSE i
    IN  [ output |-> IF dropFires THEN Drop(afterStutter, cursor) ELSE afterStutter,
          i |-> cursor + chunkSize ]

RECURSIVE GlitchLoop(_, _, _, _, _)
(* the chunk loop from cursor i on, iteration k drawing draws[k] = <<stutter, drop>> *)
GlitchLoop(output, i, stutterDurationSamples, draws, k) ==
    IF i < Length(output) /\ k < Length(draws)
    THEN LET it == GlitchIteration(output, i, stutterDurationSamples,
                                   draws[k][1], draws[k][2])
         IN  GlitchLoop(it.output, it.i, stutterDurationSamples, draws, k + 1)
    ELSE output


-----------------------------------------------------------------------------
(* generateSpectrogramData *)

MAX_DISPLAY_TIME_STEPS == 512
MAX_DISPLAY_FREQ_BINS == 256
DB_FLOOR == -90
DB_CEIL == 0
NormScale == 10 * 100     \* the normalized display value 1.0

RECURSIVE Log2Floor(_)
(* floor(log2(n)) for n >= 1 *)
Log2Floor(n) == IF n < 2 THEN 0 ELSE 1 + Log2Floor(n \div 2)

RECURSIVE Pow2(_)
Pow2(k) == IF k = 0 THEN 1 ELSE 2 * Pow2(k - 1)

(* 10 * log10(n) in mdB for n >= 1: 3010.3 mdB per factor of two, the
   mantissa interpolated linearly on 1/1024 *)
TenLog10(n) ==
    LET k == Log2Floor(n)
        mant == IF k > 10 THEN n \div Pow2(k - 10) ELSE n * Pow2(10 - k)
    IN  3010 * k + (3010 * (mant - 1024)) \div 1024

(* 20 * Math.log10(Math.sqrt(re^2 + im^2) + 1e-12) in mdB; -240 dB at zero *)
MagnitudeDb(c) ==
    LET power == c[1] * c[1] + c[2] * c[2]
    IN  IF power = 0 THEN -240 * MilliDb
        ELSE TenLog10(power) - TenLog10(FullScale * FullScale)

(* (clampedDb - DB_FLOOR) / DB_SPAN at scale NormScale *)
NormalizeDb(db) ==
    LET clampedDb == Max(DB_FLOOR * MilliDb, Min(DB_CEIL * MilliDb, db))
    IN  ((clampedDb - DB_FLOOR * MilliDb) * NormScale)
            \div ((DB_CEIL - DB_FLOOR) * MilliDb)

NormalizedMatrix(stftResult) ==
    [b \in DOMAIN stftResult |->
        [f \in DOMAIN stftResult[b] |-> NormalizeDb(MagnitudeDb(stftResult[b][f]))]]

(* Math.max(1, Math.floor(n / cap)) *)
PoolRatio(n, cap) == Max(1, n \div cap)

(* the number of values a loop variable takes from 0 in steps of ratio below n *)
LoopTrips(n, ratio) == (n + ratio - 1) \div ratio

(* the row loop run from bin 0 upwards: the r-th value of i = 0, freqRatio, ... *)
RowStartAscending(freqBins, freqRatio, r) == r * freqRatio

(* the r-th value i takes in: for (i = freqBins - 1; i >= 0; i -= freqRatio) *)
RowStart(freqBins, freqRatio, r) == freqBins - 1 - r * freqRatio

(* the c-th value j takes in: for (j = 0; j < timeSteps; j += timeRatio) *)
ColStart(timeRatio, c) == c * timeRatio

RECURSIVE PoolSum(_, _, _, _, _, _, _)
(* sum of matrix[i - y][j + x] over the y and x the two inner loops visit,
   from the yx-th pair (y, x) on *)
PoolSum(matrix, timeSteps, i, j, freqRatio, timeRatio, yx) ==
    LET y == yx \div timeRatio
        x == yx % timeRatio
    IN  IF y >= freqRatio \/ i - y < 0 THEN 0
        ELSE (IF j + x < timeSteps THEN matrix[i - y][j + x] ELSE 0)
               + PoolSum(matrix, timeSteps, i, j, freqRatio, timeRatio, yx + 1)

(* count of the cells the two inner loops visit *)
PoolCount(timeSteps, i, j, freqRatio, timeRatio) ==
    Min(freqRatio, i + 1) * Min(timeRatio, timeSteps - j)

(* newRow.push(count > 0 ? sum / count : 0) *)
PoolCell(matrix, timeSteps, i, j, freqRatio, timeRatio) ==
    LET count == PoolCount(timeSteps, i, j, freqRatio, timeRatio)
    IN  IF count > 0
        THEN PoolSum(matrix, timeSteps, i, j, freqRatio, timeRatio, 0) \div count
        ELSE 0

(* the display matrix of a freqBins x timeSteps matrix, rows and columns in
   push order *)
Downsample(matrix, freqBins, timeSteps, freqRatio, timeRatio) ==
    [r \in 0 .. (LoopTrips(freqBins, freqRatio) - 1) |->
        [c \in 0 .. (LoopTrips(timeSteps, timeRatio) - 1) |->
            PoolCell(matrix, timeSteps, RowStart(freqBins, freqRatio, r),
                     ColStart(timeRatio, c), freqRatio, timeRatio)]]

(* downsampleAndCreateLabels: displayMatrix *)
DisplayMatrix(matrix, freqBins, timeSteps) ==
    Downsample(matrix, freqBins, timeSteps,
               PoolRatio(freqBins, MAX_DISPLAY_FREQ_BINS),
               PoolRatio(timeSteps, MAX_DISPLAY_TIME_STEPS))

(* freqLabels: the display rows labelled Nyquist, Nyquist / 2 and 0, in Hz *)
FreqLabels(displayMatrix) ==
    [ k \in 0 .. 2 |->
        CASE k = 0 -> [bin |-> 0, hz |-> sr \div 2]
          [] k = 1 -> [bin |-> Length(displayMatrix) \div 2, hz |-> sr \div 4]
          [] OTHER -> [bin |-> Length(displayMatrix) - 1, hz |-> 0] ]

GenerateSpectrogramData(stftResult) ==
    IF Length(stftResult) = 0 THEN [data |-> << >>, freqLabels |-> << >>]
    ELSE LET displayMatrix == DisplayMatrix(NormalizedMatrix(stftResult),
                                            Length(stftResult), Length(stftResult[0]))
         IN  [data |-> displayMatrix, freqLabels |-> FreqLabels(displayMatrix)]

-----------------------------------------------------------------------------
(* The engine: processAudio, the change handlers and resynthesizeAudio *)

MaxSignalLength == 9
MaxEdits == 1

(* one period of a unit sine at four and at eight samples per cycle *)
SineTable(period) ==
    IF period = 4 THEN <<0, 1000, 0, -1000>>
    ELSE <<0, 707, 1000, 707, 0, -707, -1000, -707>>

Sine(period, length) ==
    [n \in 0 .. (length - 1) |-> SineTable(period)[(n % period) + 1]]

SignalLengths == {0, nfft - 1, MaxSignalLength - 1, MaxSignalLength}
Signals == {Sine(p, l) : p \in {4, 8}, l \in SignalLengths}

(* the strokes painted on the display in edit mode *)
EditStrokes ==
    {s \in Strokes : /\ s.centerF = 1 /\ s.centerB = 1 /\ ~s.isErase
                     /\ s.gainDb \in {-60, -24}}

(* TransformParams: the two switches; the glitch knobs stay where the
   sliders were left, stutterChance 0, dropChance 0.5, stutterDuration 50 ms *)
TransformChoices == [spectralEdit : BOOLEAN, glitch : BOOLEAN]
EngineStutterChance == 0 * 100
EngineDropChance == 5 * 10
EngineStutterDuration == 5 * 10

(* the quarter turns Math.random() * 2 * Math.PI is drawn from, per cell *)
PhaseChoices(n) == {[i \in 0 .. (n - 1) |-> (a + k * i) % 4] : a \in {0, 1}, k \in {0, 1}}

NoCall == [armed |-> FALSE]

(* the identity of a newly allocated array: one no live array has *)
FreshRef(live) == CHOOSE r \in 1 .. (Cardinality(live) + 1) : r \notin live

(* performStft: the spectrogram and its display data *)
PerformStft(signal) ==
    LET stftResult == Stft(signal)
    IN  [complexStft |-> stftResult,
         originalSpectrogram |-> GenerateSpectrogramData(stftResult)]

NumFrames(Zt) == IF Length(Zt) > 0 THEN Length(Zt[0]) ELSE 0

RECURSIVE OverlapAddFrames(_, _, _, _, _)
(* the loop body of istftCooperative for frames from .. to - 1 *)
OverlapAddFrames(buf, Zxx, from, to, originalLength) ==
    IF from >= to THEN buf
    ELSE OverlapAddFrames(OverlapAdd(buf, Zxx, from, originalLength), Zxx,
                          from + 1, to, originalLength)

(* applyAudioGlitches on a buffer of at most one chunk *)
ApplyAudioGlitches(signal, glitchEnabled, draws) ==
    IF ~glitchEnabled THEN signal
    ELSE GlitchLoop(signal, 0, StutterDurationSamples(EngineStutterDuration), draws, 0)

GlitchDraws ==
    {[k \in 0 .. 0 |-> <<s, d>>] : s \in RandomBelow(EngineStutterChance),
                                   d \in RandomBelow(EngineDropChance)}

(* resynthesizeAudio up to the call of istftCooperative: the locals of the call *)
BeginResynthesis(originalComplexStft, originalRef, m, tp, originalLength, phases, freshRef) ==
    [ state |-> "running",
      mask |-> m,
      transformParams |-> tp,
      originalLength |-> originalLength,
      maskedStft |-> MaskedStft(originalComplexStft, m, tp.spectralEdit, phases),
      maskedRef |-> MaskedStftRef(tp.spectralEdit, originalRef, freshRef),
      frameIndex |-> 0,
      istft |-> NoResult,
      buf |-> [reconstructedSignal |-> ZeroBuffer(originalLength),
               windowSum |-> ZeroBuffer(originalLength)] ]

(* a zero-frame spectrogram answered with an empty buffer *)
IstftOfNoFramesEmpty(originalLength) == << >>

(* istftCooperative on a spectrogram without bins: its early return *)
IstftOfNoFrames(originalLength) == ZeroBuffer(originalLength)

(* istftCooperative from frame j.frameIndex on, yielding after frame
   stop - 1 when yields is TRUE, else running to the return of
   resynthesizeAudio *)
Advance(j, stop, yields, draws) ==
    IF Length(j.maskedStft) = 0
    THEN [j EXCEPT !.state = "returned",
                   !.istft = IstftOfNoFrames(j.originalLength),
                   !.buf = [reconstructedSignal |->
                              ApplyAudioGlitches(IstftOfNoFrames(j.originalLength),
                                                 j.transformParams.glitch, draws),
                            windowSum |-> ZeroBuffer(j.originalLength)]]
    ELSE LET Zxx == Transpose(j.maskedStft)
             summed == OverlapAddFrames(j.buf, Zxx, j.frameIndex, stop, j.originalLength)
         IN  IF yields
             THEN [j EXCEPT !.state = "suspended", !.frameIndex = stop, !.buf = summed]
             ELSE [j EXCEPT !.state = "returned", !.frameIndex = stop,
                            !.istft = Normalize(summed),
                            !.buf = [reconstructedSignal |->
                                        ApplyAudioGlitches(Normalize(summed),
                                                           j.transformParams.glitch, draws),
                                     windowSum |-> summed.windowSum]]

(* the ways a call can go on from frame j.frameIndex: to a yield after any
   later frame, or to its return *)
Continuations(j) ==
    LET n == NumFrames(j.maskedStft)
    IN  {Advance(j, n, FALSE, d) : d \in GlitchDraws}
        \cup {Advance(j, stop, TRUE, CHOOSE d \in GlitchDraws : TRUE) :
                 stop \in (j.frameIndex + 1) .. n}

(* istftCooperative when the time between two yields never passes its
   limit: every frame is added in one run *)
IstftNoYield(ZxxTransposed, originalLength) ==
    IF Length(ZxxTransposed) = 0 THEN IstftOfNoFrames(originalLength)
    ELSE Normalize(OverlapAddFrames([reconstructedSignal |-> ZeroBuffer(originalLength),
                                     windowSum |-> ZeroBuffer(originalLength)],
                                    Transpose(ZxxTransposed), 0,
                                    NumFrames(ZxxTransposed), originalLength))

(* a caller handed the buffer at a yield as well *)
DeliveredEarly(j, old) ==
    IF j.state \in {"returned", "suspended"} THEN j.buf.reconstructedSignal ELSE old

(* the array originalRef names after the call wrote the cells of maskedStft
   into the array maskedRef names *)
WrittenThrough(original, originalRef, j) ==
    IF j.maskedRef = originalRef THEN j.maskedStft ELSE original

(* what updateReconstructedAudio receives when the call returns *)
Delivered(j, old) == IF j.state = "returned" THEN j.buf.reconstructedSignal ELSE old

EngineInit ==
    /\ audioData = NoAudio /\ complexStft = << >> /\ stftRef = 0
    /\ originalSpectrogram = NoDisplay
    /\ transformParams = [spectralEdit |-> FALSE, glitch |-> FALSE]
    /\ job = Idle /\ older = Idle /\ reconstructed = NoResult
    /\ pending = NoCall
    /\ MaskOff /\ DisplayOff /\ GlitchOff /\ UiOff

(* handleTransformChange, called by one of the two switches of
   ParameterControls: the new parameters, one of choices, differ in that
   switch *)
HandleTransformChangeTo(choices) ==
    \E new \in choices :
        /\ (new.spectralEdit # transformParams.spectralEdit)
              # (new.glitch # transformParams.glitch)
        /\ transformParams' = new
        /\ pending' = IF audioData # NoAudio
                      THEN [armed |-> TRUE, mask |-> mask, transformParams |-> new]
                      ELSE pending
        /\ UNCHANGED <<audioData, complexStft, stftRef, originalSpectrogram, job,
                       older, reconstructed, maskVars, displayVars, glitchVars, uiVars>>

HandleTransformChange == HandleTransformChangeTo(TransformChoices)

(* processAudio on a file decoded to one of signals, to the first yield of
   its resynthesizeAudio call *)
ProcessAudioFrom(signals) ==
    /\ audioData = NoAudio
    /\ \E signal \in signals :
          LET r == PerformStft(signal)
              frames == NumFrames(r.complexStft)
              bins == Length(r.complexStft)
              newMask == NewMask(frames, bins)
          IN  /\ signal # NoAudio
              /\ audioData' = signal
              /\ stftRef' = FreshRef({})
              /\ originalSpectrogram' = r.originalSpectrogram
              /\ mask' = newMask
              /\ prevMask' = newMask
              /\ \E phases \in PhaseChoices(frames * bins) :
                   \E next \in Continuations(
                          BeginResynthesis(r.complexStft, FreshRef({}), newMask,
                                           transformParams, Length(signal), phases,
                                           FreshRef({FreshRef({})}))) :
                      /\ job' = next
                      /\ complexStft' = WrittenThrough(r.complexStft, FreshRef({}), next)
                      /\ reconstructed' = Delivered(next, reconstructed)
    /\ UNCHANGED <<transformParams, older, pending, stroke, nStrokes, displayVars,
                   glitchVars, uiVars>>

ProcessAudio == ProcessAudioFrom(Signals)

(* a pointer-down or pointer-move of SpectrogramDisplay in edit mode, and
   the handleMaskChange it calls *)
HandleMaskChange ==
    /\ audioData # NoAudio
    /\ transformParams.spectralEdit
    /\ nStrokes < MaxEdits
    /\ \E s \in EditStrokes :
          LET newMask == ApplyBrush(mask, s.centerF, s.centerB, s.radiusB,
                                    s.gainDb, s.isErase, s.mode)
          IN  /\ mask' = newMask
              /\ stroke' = s
              /\ pending' = [armed |-> TRUE, mask |-> newMask,
                             transformParams |-> transformParams]
    /\ prevMask' = mask
    /\ nStrokes' = nStrokes + 1
    /\ UNCHANGED <<audioData, complexStft, stftRef, originalSpectrogram,
                   transformParams, job, older, reconstructed, displayVars,
                   glitchVars, uiVars>>

(* the number of resynthesizeAudio calls suspended at a yield *)
InFlight ==
    (IF job.state = "suspended" THEN 1 ELSE 0)
        + (IF older.state = "suspended" THEN 1 ELSE 0)

(* the debounce timer expires: triggerResynthesis's callback, to the first
   yield of its resynthesizeAudio call. The code starts the call whatever
   the earlier calls are doing; inFlight is the number of suspended calls
   the timer may find *)
TriggerResynthesisOver(inFlight) ==
    /\ pending.armed
    /\ InFlight <= inFlight
    /\ older' = IF job.state = "suspended" THEN job ELSE older
    /\ \E phases \in PhaseChoices(Length(complexStft) * NumFrames(complexStft)) :
         \E next \in Continuations(
                BeginResynthesis(complexStft, stftRef, pending.mask,
                                 pending.transformParams, Length(audioData), phases,
                                 FreshRef({stftRef}))) :
            /\ job' = next
            /\ complexStft' = WrittenThrough(complexStft, stftRef, next)
            /\ reconstructed' = Delivered(next, reconstructed)
    /\ pending' = NoCall
    /\ UNCHANGED <<audioData, stftRef, originalSpectrogram,
                   transformParams, maskVars, displayVars, glitchVars, uiVars>>

(* the timer expires after the earlier call has returned *)
TriggerResynthesis == TriggerResynthesisOver(0)

(* a resumption that finds its two buffers zeroed *)
ResumptionsRestarted(j) ==
    IF j.state = "suspended"
    THEN Continuations([j EXCEPT !.buf = [reconstructedSignal |-> ZeroBuffer(j.originalLength),
                                          windowSum |-> ZeroBuffer(j.originalLength)]])
    ELSE {j}

(* the ways a call goes on at an animation frame: a suspended call is
   resumed, any other call is left as it is *)
Resumptions(j) == IF j.state = "suspended" THEN Continuations(j) ELSE {j}

(* what updateReconstructedAudio receives from a call resumed at this frame *)
DeliveredOnResume(before, after, old) ==
    IF before.state = "suspended" THEN Delivered(after, old) ELSE old

(* the animation frame suspended istftCooperative calls wait for: their
   requestAnimationFrame callbacks run in the order they were registered,
   the older call's first *)
ResumeIstft ==
    /\ job.state = "suspended" \/ older.state = "suspended"
    /\ \E nextOlder \in Resumptions(older), next \in Resumptions(job) :
          /\ older' = nextOlder
          /\ job' = next
          /\ reconstructed' =
                DeliveredOnResume(job, next,
                                  DeliveredOnResume(older, nextOlder, reconstructed))
    /\ UNCHANGED <<audioData, complexStft, stftRef, originalSpectrogram,
                   transformParams, pending, maskVars, displayVars, glitchVars, uiVars>>

EngineNext ==
    \/ HandleTransformChange
    \/ ProcessAudio
    \/ HandleMaskChange
    \/ TriggerResynthesis
    \/ ResumeIstft

SpecEngine == EngineInit /\ [][EngineNext]_vars

(* Overlapping calls: the timer expires while the earlier call is still
   suspended at a yield of istftCooperative, on the longest signal, with
   the edit switch turned on once and the glitch switch left off *)
OverlapSignals == {Sine(p, MaxSignalLength) : p \in {4, 8}}

HandleEditSwitch ==
    HandleTransformChangeTo({c \in TransformChoices : c.spectralEdit /\ ~c.glitch})

ProcessLongAudio == ProcessAudioFrom(OverlapSignals)

TriggerResynthesisInFlight == TriggerResynthesisOver(1)

OverlapNext ==
    \/ HandleEditSwitch
    \/ ProcessLongAudio
    \/ HandleMaskChange
    \/ TriggerResynthesisInFlight
    \/ ResumeIstft

SpecOverlap == EngineInit /\ [][OverlapNext]_vars

(* Short input: performStft on a signal shorter than one block, then
   resynthesizeAudio on its spectrogram with any mask, switches and output
   length *)
ShortSignals == {Sine(p, l) : p \in {4, 8}, l \in 0 .. (nfft - 1)}

ShortMasks ==
    {NewMask(0, 0), NewMask(GridF, GridB)}
    \cup {ApplyBrush(NewMask(GridF, GridB), s.centerF, s.centerB, s.radiusB,
                     s.gainDb, s.isErase, s.mode) : s \in EditStrokes}

OutputLengths == 0 .. MaxSignalLength

CallPerformStft ==
    /\ originalSpectrogram = NoDisplay
    /\ \E signal \in ShortSignals :
          LET r == PerformStft(signal)
          IN  /\ audioData' = signal
              /\ complexStft' = r.complexStft
              /\ stftRef' = FreshRef({})
              /\ originalSpectrogram' = r.originalSpectrogram
    /\ UNCHANGED <<transformParams, job, older, reconstructed, pending, maskVars,
                   displayVars, glitchVars, uiVars>>

CallResynthesizeAudio ==
    /\ originalSpectrogram # NoDisplay
    /\ job = Idle
    /\ \E m \in ShortMasks, tp \in TransformChoices, originalLength \in OutputLengths :
          \E phases \in PhaseChoices(Length(complexStft) * NumFrames(complexStft)) :
             \E next \in Continuations(
                    BeginResynthesis(complexStft, stftRef, m, tp, originalLength,
                                     phases, FreshRef({stftRef}))) :
                /\ mask' = m
                /\ transformParams' = tp
                /\ job' = next
                /\ complexStft' = WrittenThrough(complexStft, stftRef, next)
                /\ reconstructed' = Delivered(next, reconstructed)
    /\ UNCHANGED <<audioData, stftRef, originalSpectrogram, older,
                   pending, prevMask, stroke, nStrokes, displayVars, glitchVars,
                   uiVars>>

ShortNext ==
    \/ CallPerformStft
    \/ CallResynthesizeAudio

SpecShort == EngineInit /\ [][ShortNext]_vars

-----------------------------------------------------------------------------
(* Properties of overlapping resynthesizeAudio calls, checked under
   SpecOverlap *)

(* C12: when a newer resynthesis request starts while an older one is
   suspended at a yield, the older one is accepted as the observed output
   only if no newer request has completed before it: once every started
   request has completed, the observed output is the newest request's
   result. *)
C12_NewestWins ==
    (job.state = "returned" /\ InFlight = 0)
        => reconstructed = job.buf.reconstructedSignal

(* C13: the buffer istftCooperative returns for a spectrogram and an output
   length is the one it returns when it never yields, for every pattern of
   yields, also when a brush event or another resynthesis ran while the call
   was suspended. *)
C13_YieldsKeepResult ==
    \A c \in {job, older} :
        c.state = "returned" => c.istft = IstftNoYield(c.maskedStft, c.originalLength)

(* the older call was suspended when the newer one started after a brush
   event; both have returned, the older one a signal that is not silence *)
C13_Witness ==
    /\ older.state = "returned" /\ job.state = "returned"
    /\ nStrokes > 0
    /\ older.mask # job.mask
    /\ older.istft = IstftNoYield(older.maskedStft, older.originalLength)
    /\ \E n \in DOMAIN older.istft : older.istft[n] # 0

-----------------------------------------------------------------------------
(* Properties of mask application and of the round trip, checked under
   SpecEngine *)

Called == job.state # "idle"
IsNeutral(m) == m = NewMask(m.F, m.B)
SomeCellNonZero(Zt) ==
    \E b \in DOMAIN Zt : \E f \in DOMAIN Zt[b] : Zt[b][f] # <<0, 0>>

(* C5: with spectral editing enabled and an all-neutral mask (gain 0,
   generative -999 everywhere), the edited spectrogram of a resynthesizeAudio
   call equals the input spectrogram in every cell, real and imaginary part,
   and has its dimensions. *)
C5_IdentityMask ==
    (Called /\ job.transformParams.spectralEdit /\ IsNeutral(job.mask))
        => job.maskedStft = complexStft

C5_Witness ==
    /\ Called /\ job.transformParams.spectralEdit /\ IsNeutral(job.mask)
    /\ SomeCellNonZero(complexStft)
    /\ job.maskedStft = complexStft

(* C6: with spectral editing disabled the edited spectrogram equals the
   source spectrogram cell for cell whatever the mask holds, and it is
   another array than the source spectrogram. *)
C6_DisabledIsCopy ==
    (Called /\ ~job.transformParams.spectralEdit)
        => (job.maskedStft = complexStft /\ job.maskedRef # stftRef)

C6_Witness ==
    /\ Called /\ ~job.transformParams.spectralEdit
    /\ ~IsNeutral(job.mask)
    /\ SomeCellNonZero(complexStft)
    /\ job.maskedStft = complexStft /\ job.maskedRef # stftRef

(* the largest sample error allowed, 1e-5, against differences in 1 / Amp *)
WithinTolerance(diff) == Abs(diff) * 100000 < Amp

(* C7: for a sine wave of at least one block, with spectral editing and
   glitches disabled, the buffer resynthesizeAudio returns differs from the
   signal by less than 1e-5 at every sample index of the signal. *)
C7_RoundTripFidelity ==
    ( /\ job.state = "returned"
      /\ ~job.transformParams.spectralEdit /\ ~job.transformParams.glitch
      /\ Length(audioData) >= nfft )
        => \A n \in DOMAIN audioData : WithinTolerance(reconstructed[n] - audioData[n])

(* the call has added every frame, normalized the whole buffer and applied
   the glitch stage, and signal is what it returned *)
CompleteResultOf(c, signal) ==
    /\ c.state = "returned"
    /\ c.frameIndex = NumFrames(c.maskedStft)
    /\ c.istft = IstftNoYield(c.maskedStft, c.originalLength)
    /\ \E d \in GlitchDraws :
          signal = ApplyAudioGlitches(c.istft, c.transformParams.glitch, d)

(* C14: the reconstruction buffer of a resynthesis is not observable by the
   caller at a yield: whenever the caller's output changes, it becomes the
   buffer of a call that has overlap-added every frame, normalized the whole
   buffer and applied the glitch stage. *)
C14_NoPartialResults ==
    [][reconstructed' # reconstructed
         => \E c \in {job', older'} : CompleteResultOf(c, reconstructed')]_vars

(* C18: the engine never changes its inputs: performStft leaves every
   sample of the source audio as it was, and resynthesizeAudio leaves every
   cell of the cached spectrogram and both layers of the mask as they were,
   for every setting of the edit and glitch switches. *)
C18_InputsUnchanged ==
    [][(job' # job \/ older' # older)
         => IF audioData = NoAudio /\ stftRef = 0
            THEN /\ complexStft' = Stft(audioData')
                 /\ job'.mask = mask'
            ELSE /\ audioData' = audioData
                 /\ complexStft' = complexStft
                 /\ mask' = mask
                 /\ \/ job'.mask = job.mask
                    \/ pending.armed /\ job'.mask = pending.mask]_vars

(* a call with both switches on and a painted mask has returned: its edited
   spectrogram differs from the cached one, which is still the transform of
   the audio *)
C18_Witness ==
    /\ job.state = "returned"
    /\ job.transformParams.spectralEdit /\ job.transformParams.glitch
    /\ ~IsNeutral(job.mask) /\ mask = job.mask
    /\ job.maskedStft # complexStft
    /\ SomeCellNonZero(complexStft)
    /\ complexStft = Stft(audioData)

(* a call is suspended after its first frames with samples already added,
   and the caller has received nothing *)
C14_Witness ==
    /\ job.state = "suspended"
    /\ job.frameIndex > 0 /\ job.frameIndex < NumFrames(job.maskedStft)
    /\ \E n \in DOMAIN job.buf.reconstructedSignal : job.buf.reconstructedSignal[n] # 0
    /\ reconstructed = NoResult

(* a signal of at least one block has been analysed *)
Framed == audioData # NoAudio /\ Length(audioData) >= nfft

(* the first n samples of a signal *)
FirstSamples(signal, n) == [i \in 0 .. (n - 1) |-> signal[i]]

(* C25: for a signal of length L >= nfft with hop nfft / 2, stft produces
   exactly floor((L - nfft) / hop) + 1 frames; frame k is the transform of
   the samples k * hop .. k * hop + nfft - 1; the samples after the last
   full block contribute to no frame, the spectrogram being the one of the
   signal cut after that block; the result is indexed [bin][frame] and has
   exactly nfft / 2 + 1 bins. *)
C25_Framing ==
    Framed =>
        LET L == Length(audioData)
            frames == (L - nfft) \div hopLength + 1
        IN  /\ Length(complexStft) = nfft \div 2 + 1
            /\ \A b \in DOMAIN complexStft : Length(complexStft[b]) = frames
            /\ \A b \in 0 .. (nfft \div 2) : \A k \in 0 .. (frames - 1) :
                   complexStft[b][k] = StftFrame(audioData, k * hopLength)[b]
            /\ complexStft =
                   Stft(FirstSamples(audioData, (frames - 1) * hopLength + nfft))

(* a signal with a sample after its last full block, of several frames *)
C25_Witness ==
    /\ Framed
    /\ (Length(audioData) - nfft) % hopLength # 0
    /\ NumFrames(complexStft) = (Length(audioData) - nfft) \div hopLength + 1
    /\ NumFrames(complexStft) > 1
    /\ SomeCellNonZero(complexStft)

(* C15: for every signal shorter than the block size, the empty signal
   included, performStft returns a spectrogram with zero frames and a display
   result with empty data and no labels, and resynthesizeAudio on that
   spectrogram returns, for any mask, switches and output length, a buffer of
   that many samples. *)
C15_ShortInput ==
    /\ originalSpectrogram # NoDisplay
          => /\ Length(audioData) < nfft
             /\ NumFrames(complexStft) = 0 /\ Length(complexStft) = 0
             /\ originalSpectrogram = [data |-> << >>, freqLabels |-> << >>]
    /\ job # Idle
          => /\ job.state = "returned"
             /\ DOMAIN reconstructed = 0 .. (job.originalLength - 1)

C15_Witness ==
    /\ Length(audioData) = nfft - 1
    /\ originalSpectrogram = [data |-> << >>, freqLabels |-> << >>]
    /\ job.state = "returned"
    /\ ~IsNeutral(job.mask) /\ job.transformParams.spectralEdit
    /\ job.transformParams.glitch
    /\ job.originalLength = MaxSignalLength
    /\ DOMAIN reconstructed = 0 .. (MaxSignalLength - 1)

-----------------------------------------------------------------------------
(* The display: generateSpectrogramData on spectrograms of many shapes *)

MaxDisplayBins == 513
MaxDisplayFrames == 1025

(* a spectrogram of the given shape whose cell magnitudes vary with the bin
   and the frame, between -72 dB and 0 dB *)
PatternStft(bins, frames, p, q) ==
    [b \in 0 .. (bins - 1) |->
        [f \in 0 .. (frames - 1) |->
            << 1 + ((b * p + f * q) % 64) * 60, ((b + f) % 3) * 100 >>]]

SmallShapes == {<<b, f>> : b \in 1 .. 5, f \in 1 .. 4}
LargeShapes ==
    { <<MAX_DISPLAY_FREQ_BINS + 1, 1>>, <<MaxDisplayBins, 1>>, <<MaxDisplayBins, 2>>,
      <<2, MAX_DISPLAY_TIME_STEPS + 1>>, <<1, MaxDisplayFrames>> }

DisplayInputs ==
    {<< >>}
    \cup {PatternStft(sh[1], sh[2], p, q) : sh \in SmallShapes, p \in {1, 5}, q \in {0, 3}}
    \cup {PatternStft(sh[1], sh[2], p, 3) : sh \in LargeShapes, p \in {1, 5}}

DisplayInit ==
    /\ dispStft \in DisplayInputs
    /\ dispData = NoDisplay
    /\ MaskOff /\ EngineOff /\ GlitchOff /\ UiOff

(* one call of generateSpectrogramData *)
GenerateDisplay ==
    /\ dispData = NoDisplay
    /\ dispData' = GenerateSpectrogramData(dispStft)
    /\ UNCHANGED <<dispStft, maskVars, engineVars, glitchVars, uiVars>>

DisplayNext == GenerateDisplay

SpecDisplay == DisplayInit /\ [][DisplayNext]_vars

-----------------------------------------------------------------------------
(* Properties of the display data, checked under SpecDisplay *)

Generated == dispData # NoDisplay
DispBins == Length(dispStft)
DispFrames == IF DispBins > 0 THEN Length(dispStft[0]) ELSE 0
DispRows == Length(dispData.data)

(* C8: the display matrix has at most 256 rows and every row has at most
   512 columns, for every spectrogram. *)
C8_DownsampleBound ==
    Generated =>
        /\ DispRows <= MAX_DISPLAY_FREQ_BINS
        /\ \A r \in DOMAIN dispData.data :
              Length(dispData.data[r]) <= MAX_DISPLAY_TIME_STEPS

(* the normalized display value of one input cell *)
CellValue(b, t) == NormalizeDb(MagnitudeDb(dispStft[b][t]))

RECURSIVE SumCells(_)
SumCells(cells) ==
    IF cells = {} THEN 0
    ELSE LET x == CHOOSE y \in cells : TRUE
         IN  CellValue(x[1], x[2]) + SumCells(cells \ {x})

Average(cells) == SumCells(cells) \div Cardinality(cells)

(* the input bins that display row r stands for, rows counted down from the
   highest bin in blocks of freqRatio, and the frames of display column c *)
BinsOfRow(r) ==
    LET freqRatio == Max(1, DispBins \div MAX_DISPLAY_FREQ_BINS)
        top == DispBins - 1 - r * freqRatio
    IN  {b \in 0 .. (DispBins - 1) : b <= top /\ b > top - freqRatio}
FramesOfColumn(c) ==
    LET timeRatio == Max(1, DispFrames \div MAX_DISPLAY_TIME_STEPS)
    IN  {t \in 0 .. (DispFrames - 1) : t >= c * timeRatio /\ t < (c + 1) * timeRatio}

(* C9: row 0 of the display matrix is the average of the highest-index bins
   (numBins-1 down to numBins-freqRatio), each following row is the average
   of the next lower block of bins, and the last row contains bin 0. *)
C9_RowOrder ==
    (Generated /\ DispBins > 0) =>
        /\ BinsOfRow(0) = {b \in 0 .. (DispBins - 1) :
                              b >= DispBins - Max(1, DispBins \div MAX_DISPLAY_FREQ_BINS)}
        /\ \A r \in DOMAIN dispData.data : \A c \in DOMAIN dispData.data[r] :
              dispData.data[r][c] = Average(BinsOfRow(r) \X FramesOfColumn(c))
        /\ 0 \in BinsOfRow(DispRows - 1)

C9_Witness ==
    /\ Generated
    /\ DispBins >= 2 * MAX_DISPLAY_FREQ_BINS
    /\ DispRows > 1
    /\ dispData.data[0][0] = Average(BinsOfRow(0) \X FramesOfColumn(0))
    /\ dispData.data[0][0] # dispData.data[DispRows - 1][0]
    /\ 0 \in BinsOfRow(DispRows - 1)

-----------------------------------------------------------------------------
(* applyAudioGlitches, one chunk-loop iteration per step *)

MaxGlitchLength == 1100

(* buffers of no, less than one, and more than two chunks; no sample is 0 *)
GlitchSignals ==
    {[n \in 0 .. (l - 1) |-> n + 1] : l \in {0, chunkSize + 100, MaxGlitchLength}}

(* stutterChance and dropChance in percent, stutterDuration in ms: 0, 5 and
   12 ms are 0, 220 and 529 samples, 50 ms (the default) is 2205 *)
GlitchSettings ==
    [ enabled : BOOLEAN, stutterChance : {0, 50, 100}, dropChance : {0, 50, 100},
      stutterDuration : {0, 5, 12, 50} ]

GlitchInit ==
    /\ gSignal \in GlitchSignals
    /\ gParams \in GlitchSettings
    /\ gOutput = << >>
    /\ gCursor = 0
    /\ gState = "called"
    /\ MaskOff /\ EngineOff /\ DisplayOff /\ UiOff

(* an entry without the early return *)
GlitchEntryStateNoReturn(enabled) == "loop"

(* if (!transformParams.audioGlitch.enabled) return signal *)
GlitchEntryState(enabled) == IF enabled THEN "loop" ELSE "returned"

(* the entry of applyAudioGlitches: the early return or the copy of signal *)
GlitchEnter ==
    /\ gState = "called"
    /\ gOutput' = gSignal
    /\ gCursor' = 0
    /\ gState' = GlitchEntryState(gParams.enabled)
    /\ UNCHANGED <<gSignal, gParams, maskVars, engineVars, displayVars, uiVars>>

(* one iteration of: for (let i = 0; i < output.length; i += chunkSize) *)
GlitchIterate ==
    /\ gState = "loop"
    /\ gCursor < Length(gOutput)
    /\ \E stutterFires \in RandomBelow(gParams.stutterChance),
          dropFires \in RandomBelow(gParams.dropChance) :
          LET it == GlitchIteration(gOutput, gCursor,
                                    StutterDurationSamples(gParams.stutterDuration),
                                    stutterFires, dropFires)
          IN  /\ gOutput' = it.output
              /\ gCursor' = it.i
    /\ UNCHANGED <<gSignal, gParams, gState, maskVars, engineVars, displayVars, uiVars>>

(* the loop condition fails: return output *)
GlitchReturn ==
    /\ gState = "loop"
    /\ gCursor >= Length(gOutput)
    /\ gState' = "returned"
    /\ UNCHANGED <<gSignal, gParams, gOutput, gCursor, maskVars, engineVars, displayVars, uiVars>>

GlitchNext ==
    \/ GlitchEnter
    \/ GlitchIterate
    \/ GlitchReturn

SpecGlitch == GlitchInit /\ [][GlitchNext]_vars

-----------------------------------------------------------------------------
(* Properties of applyAudioGlitches, checked under SpecGlitch *)

GlitchReturned == gState = "returned"

(* C10: with glitches enabled and dropChance = 1, the buffer
   applyAudioGlitches returns holds 0 at every sample and has the length of
   the signal, whatever stutterChance and stutterDuration are. *)
C10_DropZeroesAll ==
    (GlitchReturned /\ gParams.enabled /\ gParams.dropChance = 100)
        => /\ DOMAIN gOutput = DOMAIN gSignal
           /\ \A n \in DOMAIN gOutput : gOutput[n] = 0

C10_Witness ==
    /\ GlitchReturned /\ gParams.enabled /\ gParams.dropChance = 100
    /\ gParams.stutterChance = 100
    /\ StutterDurationSamples(gParams.stutterDuration) \in 1 .. (chunkSize - 1)
    /\ Length(gSignal) > 2 * chunkSize
    /\ \A n \in DOMAIN gSignal : gSignal[n] # 0 /\ gOutput[n] = 0

(* C20: with glitches disabled, applyAudioGlitches returns a buffer of the
   length of its input with the input's sample at every index, whatever the
   glitch chances and durations are, and the input is as it was given. *)
C20_DisabledIsNoOp ==
    (GlitchReturned /\ ~gParams.enabled)
        => /\ DOMAIN gOutput = DOMAIN gSignal
           /\ \A n \in DOMAIN gSignal : gOutput[n] = gSignal[n]
           /\ gSignal \in GlitchSignals

(* returned with glitches disabled on a signal of more than two chunks,
   with a stutter and a drop certain had they been enabled *)
C20_Witness ==
    /\ GlitchReturned /\ ~gParams.enabled
    /\ gParams.stutterChance = 100 /\ gParams.dropChance = 100
    /\ Length(gSignal) > 2 * chunkSize
    /\ \A n \in DOMAIN gSignal : gSignal[n] # 0 /\ gOutput[n] = gSignal[n]

(* an iteration of the chunk loop is about to run *)
GlitchLooping == gState = "loop" /\ gCursor < Length(gOutput)

(* the stutter length in samples of the call *)
GlitchD == StutterDurationSamples(gParams.stutterDuration)

(* the buffer with samples i .. i + D - 1 replaced by the samples that stood
   at i - 512 + (s mod 512), every other sample kept *)
RepeatedChunk(output, i, D) ==
    [n \in DOMAIN output |->
        IF n >= i /\ n < i + D THEN output[i - chunkSize + ((n - i) % chunkSize)]
        ELSE output[n]]

(* C26: when a stutter fires at chunk cursor i > 0 with stutter length D,
   every sample i + s with 0 <= s < D inside the buffer is replaced by the
   sample that stood at i - 512 + (s mod 512) just before the stutter, the
   samples outside [i, i + D) are not changed by the stutter, and no stutter
   happens at cursor 0. Observed on the iterations no drop follows. *)
C26_StutterContent ==
    [][ (GlitchLooping /\ gParams.dropChance = 0) =>
            /\ gCursor = 0 => gOutput' = gOutput
            /\ gOutput' # gOutput =>
                   gOutput' = RepeatedChunk(gOutput, gCursor, GlitchD)
            /\ (gCursor > 0 /\ gParams.stutterChance = 100) =>
                   gOutput' = RepeatedChunk(gOutput, gCursor, GlitchD)
      ]_vars

(* a stutter longer than one chunk has fired at cursor 512, no drop after
   it: the chunk before the cursor stands again from 512 and from 1024 on *)
C26_Witness ==
    /\ gState = "loop" /\ gParams.enabled
    /\ gParams.dropChance = 0 /\ gParams.stutterChance = 100
    /\ GlitchD > chunkSize
    /\ Length(gSignal) > 2 * chunkSize
    /\ gCursor > chunkSize
    /\ gOutput[chunkSize - 1] = gSignal[chunkSize - 1]
    /\ gOutput[chunkSize] = gSignal[0] /\ gSignal[chunkSize] # gSignal[0]
    /\ gOutput[2 * chunkSize] = gSignal[0]

(* C27: every drop zeroes exactly the samples [c, min(c + 512, length))
   where c is the chunk boundary at which the iteration's stutter check was
   made, also when a stutter fired in the same iteration; the cursor then
   moves on by the stutter duration if a stutter fired and by 512
   otherwise. *)
C27_DropTargetsChunk ==
    [][ GlitchLooping =>
            \E stutterFires \in RandomBelow(gParams.stutterChance),
               dropFires \in RandomBelow(gParams.dropChance) :
               LET stuttered == stutterFires /\ gCursor > 0
                   afterStutter == IF stuttered
                                   THEN Stutter(gOutput, gCursor, GlitchD)
                                   ELSE gOutput
               IN  /\ gOutput' = IF dropFires THEN Drop(afterStutter, gCursor)
                                 ELSE afterStutter
                   /\ gCursor' = gCursor + IF stuttered THEN GlitchD ELSE chunkSize
      ]_vars

(* the chunk loop under weak fairness: an iteration that can run does run *)
SpecGlitchLive == SpecGlitch /\ WF_vars(GlitchNext)

(* C28: applyAudioGlitches terminates for every signal and every glitch
   setting, a stutterDuration of 0 and durations shorter than one chunk
   included: the chunk cursor at the start of each loop iteration is
   strictly greater than at the start of the previous one, and the call
   returns. *)
C28_Terminates ==
    /\ [][GlitchLooping => gCursor' > gCursor]_vars
    /\ <>GlitchReturned

-----------------------------------------------------------------------------
(* debounce(fn, ms): the time is counted in ticks, and a timer's callback
   runs at its deadline, before the time moves on and before any other call
   of that instant *)

DebounceMs == 3
MaxCalls == 4
MaxTime == 9

(* the argument lists the debounced function is called with *)
DebounceArgs == {"a", "b"}

(* window.clearTimeout(handle) that leaves the timer armed *)
ClearTimeoutNoop(timers, handle) == timers

(* window.clearTimeout(handle): no effect when no such timer is armed *)
ClearTimeout(timers, handle) == {tm \in timers : tm.id # handle}

(* window.setTimeout(() => fn(...args), ms), with the handle it returns *)
SetTimeout(timers, handle, args, now) ==
    timers \cup {[id |-> handle, deadline |-> now + DebounceMs, args |-> args]}

NoTimerDue == \A tm \in dTimers : dNow < tm.deadline

DebounceInit ==
    /\ dNow = 0 /\ dT = 0 /\ dTimers = {} /\ dCalls = << >> /\ dInvoked = << >>
    /\ MaskOff /\ EngineOff /\ DisplayOff /\ GlitchOff /\ ParamsOff /\ PaintOff

(* the function debounce returns: if (t) clearTimeout(t); t = setTimeout(...) *)
DebouncedCall ==
    /\ Len(dCalls) < MaxCalls
    /\ NoTimerDue
    /\ \E args \in DebounceArgs :
          LET handle == Len(dCalls) + 1
              kept == IF dT # 0 THEN ClearTimeout(dTimers, dT) ELSE dTimers
          IN  /\ dTimers' = SetTimeout(kept, handle, args, dNow)
              /\ dT' = handle
              /\ dCalls' = Append(dCalls, [time |-> dNow, args |-> args])
    /\ UNCHANGED <<dNow, dInvoked, maskVars, engineVars, displayVars, glitchVars,
                   paramVars, paintVars>>

(* a timer expires: () => fn(...args) *)
TimerFires ==
    /\ \E tm \in dTimers :
          /\ tm.deadline <= dNow
          /\ dInvoked' = Append(dInvoked, [time |-> dNow, args |-> tm.args])
          /\ dTimers' = dTimers \ {tm}
    /\ UNCHANGED <<dNow, dT, dCalls, maskVars, engineVars, displayVars, glitchVars,
                   paramVars, paintVars>>

(* the time moves on by one tick *)
Tick ==
    /\ dNow < MaxTime
    /\ NoTimerDue
    /\ dNow' = dNow + 1
    /\ UNCHANGED <<dT, dTimers, dCalls, dInvoked, maskVars, engineVars,
                   displayVars, glitchVars, paramVars, paintVars>>

DebounceNext ==
    \/ DebouncedCall
    \/ TimerFires
    \/ Tick

SpecDebounce == DebounceInit /\ [][DebounceNext]_vars

-----------------------------------------------------------------------------
(* The STFT parameters: the FFT-size select of ParameterControls and the
   handlers of App that write the params state *)

MaxNfftChanges == 2

nfftOptions == <<256, 512, 1024, 2048, 4096, 8192>>

(* the sample rates of the decoded files *)
SampleRates == {22050, 44100, 48000}

RECURSIVE ToDigits(_)
(* the value attribute of an option: the decimal digits of its size *)
ToDigits(n) == IF n < 10 THEN <<n>> ELSE Append(ToDigits(n \div 10), n % 10)

RECURSIVE ParseDigits(_, _)
ParseDigits(digits, acc) ==
    IF digits = << >> THEN acc
    ELSE ParseDigits(Tail(digits), acc * 10 + Head(digits))

(* parseInt(e.target.value, 10) *)
ParseInt(digits) == ParseDigits(digits, 0)

(* the values the select can report: those of its options *)
OptionValues == {ToDigits(nfftOptions[i]) : i \in DOMAIN nfftOptions}

(* a change handler that leaves the hop at its default *)
HopLengthDefault(newNfft) == DEFAULT_PARAMS.hopLength

(* hopLength: newNfft / 2, a whole number for the even sizes of the select *)
HopLengthFor(newNfft) == newNfft \div 2

(* the params an earlier session left in localStorage: what this program
   wrote there *)
StoredParams ==
    {[DEFAULT_PARAMS EXCEPT !.sr = rate, !.nfft = nfftOptions[i],
                            !.hopLength = HopLengthFor(nfftOptions[i])] :
        rate \in SampleRates, i \in DOMAIN nfftOptions}

ParamsInit ==
    /\ params \in {DEFAULT_PARAMS} \cup StoredParams
    /\ fileLoad = NoLoad /\ audioBuffer = FALSE /\ analysed = NoParams
    /\ pChanges = 0
    /\ MaskOff /\ EngineOff /\ DisplayOff /\ GlitchOff /\ DebounceOff /\ PaintOff

(* handleNfftChange of ParameterControls and the handleParamsChange of App
   it calls *)
HandleNfftChange ==
    /\ pChanges < MaxNfftChanges
    /\ \E value \in OptionValues :
          LET newNfft == ParseInt(value)
              newParams == [params EXCEPT !.nfft = newNfft,
                                          !.hopLength = HopLengthFor(newNfft)]
          IN  /\ newNfft # params.nfft
              /\ params' = newParams
              /\ analysed' = IF audioBuffer THEN newParams ELSE analysed
    /\ pChanges' = pChanges + 1
    /\ UNCHANGED <<fileLoad, audioBuffer, maskVars, engineVars, displayVars,
                   glitchVars, debounceVars, paintVars>>

(* handleFileChange to its first await: the closure holds the params of the
   render it was made in *)
HandleFileChange ==
    /\ fileLoad = NoLoad
    /\ fileLoad' = [state |-> "decoding", params |-> params]
    /\ audioBuffer' = FALSE
    /\ UNCHANGED <<params, analysed, pChanges, maskVars, engineVars, displayVars,
                   glitchVars, debounceVars, paintVars>>

(* handleFileChange after decodeAudioData: setParams({ ...params, sr: newSr })
   and processAudio with them *)
FileDecoded ==
    /\ fileLoad # NoLoad
    /\ \E newSr \in SampleRates :
          LET newParams == [fileLoad.params EXCEPT !.sr = newSr]
          IN  /\ params' = newParams
              /\ analysed' = newParams
    /\ audioBuffer' = TRUE
    /\ fileLoad' = NoLoad
    /\ UNCHANGED <<pChanges, maskVars, engineVars, displayVars, glitchVars,
                   debounceVars, paintVars>>

ParamsNext ==
    \/ HandleNfftChange
    \/ HandleFileChange
    \/ FileDecoded

SpecParams == ParamsInit /\ [][ParamsNext]_vars

-----------------------------------------------------------------------------
(* Properties of the STFT parameters, checked under SpecParams *)

InOptions(n) == \E i \in DOMAIN nfftOptions : nfftOptions[i] = n

(* C16: after any sequence of FFT-size changes made through
   ParameterControls, nfft is one of 256, 512, 1024, 2048, 4096, 8192 and
   hopLength is nfft / 2 exactly, and a change leaves the other fields of
   the parameters (sample rate, duration, window) as they were. *)
C16_ParamsInvariant ==
    /\ [](pChanges > 0 => (InOptions(params.nfft) /\ params.hopLength * 2 = params.nfft))
    /\ [][pChanges' # pChanges
            => /\ InOptions(params'.nfft) /\ params'.hopLength * 2 = params'.nfft
               /\ params'.sr = params.sr
               /\ params'.duration = params.duration
               /\ params'.window = params.window]_vars

(* two changes, the last to the largest size, on a file whose sample rate is
   not the default one *)
C16_Witness ==
    /\ pChanges = MaxNfftChanges
    /\ params.nfft = 8192 /\ params.hopLength = 4096
    /\ params.sr # DEFAULT_PARAMS.sr
    /\ audioBuffer /\ analysed = params

-----------------------------------------------------------------------------
(* Properties of debounce, checked under SpecDebounce *)

(* call i ends a burst: no call follows it less than ms later *)
EndsBurst(i) ==
    i = Len(dCalls) \/ dCalls[i + 1].time >= dCalls[i].time + DebounceMs
BurstEnds == {i \in 1 .. Len(dCalls) : EndsBurst(i)}

(* C11: every burst of calls, each less than ms after the one before, leads
   to exactly one invocation of fn, ms after the last call of the burst and
   with that call's arguments; no other invocation is made. *)
C11_Coalescing ==
    /\ Len(dInvoked) <= Cardinality(BurstEnds)
    /\ \A i \in BurstEnds :
          LET k == Cardinality({j \in BurstEnds : j <= i})
          IN  /\ dCalls[i].time + DebounceMs < dNow => k <= Len(dInvoked)
              /\ k <= Len(dInvoked) =>
                    dInvoked[k] = [time |-> dCalls[i].time + DebounceMs,
                                   args |-> dCalls[i].args]

C11_Witness ==
    /\ Len(dCalls) >= 3
    /\ dCalls[1].time < dCalls[2].time /\ dCalls[2].time < dCalls[3].time
    /\ dCalls[3].time < dCalls[1].time + DebounceMs
    /\ dCalls[1].args # dCalls[3].args
    /\ Len(dInvoked) = 1
    /\ dInvoked[1] = [time |-> dCalls[3].time + DebounceMs, args |-> dCalls[3].args]

-----------------------------------------------------------------------------
(* Painting: the pointer handlers of SpectrogramDisplay, the SpectralMask
   objects they make and the mask state of App *)

MaxPointerEvents == 3

(* the cells canvasToSpectral reports for the pointer *)
PointerCells == {<<0, 0>>, <<2, 1>>}

(* brushParams and e.altKey of an event *)
PointerBrushes ==
    {s \in Strokes : /\ s.centerF = 0 /\ s.centerB = 0 /\ ~s.isErase
                     /\ s.gainDb \in {-60, -24}}

(* e.button: the primary button and another one *)
Buttons == {0, 2}

otherThanPaint == <<maskVars, engineVars, displayVars, glitchVars, debounceVars,
                    paramVars>>

(* the mask object r of heap h as a value: its sizes and its two layers *)
MaskValue(h, r) ==
    [ F |-> h.masks[r].F, B |-> h.masks[r].B,
      gainDbLayer |-> h.arrays[h.masks[r].gainDbLayer],
      generativeDbLayer |-> h.arrays[h.masks[r].generativeDbLayer] ]

(* the arrays the mask object r holds *)
LayerRefs(h, r) == {h.masks[r].gainDbLayer, h.masks[r].generativeDbLayer}

(* new SpectralMask(F, B): two new arrays and the object that holds them *)
Construct(h, F, B) ==
    [ arrays |-> h.arrays \o <<NewMask(F, B).gainDbLayer, NewMask(F, B).generativeDbLayer>>,
      masks |-> Append(h.masks, [F |-> F, B |-> B,
                                 gainDbLayer |-> Len(h.arrays) + 1,
                                 generativeDbLayer |-> Len(h.arrays) + 2]) ]

(* a clone that takes over the arrays of the mask it copies *)
CloneSharing(h, r) == [h EXCEPT !.masks = Append(h.masks, h.masks[r])]

(* mask.clone(): a new mask of the same sizes, its layers set from the
   layers of mask r; the clone is the last mask of the heap returned *)
Clone(h, r) ==
    LET made == Construct(h, h.masks[r].F, h.masks[r].B)
        n == Len(made.masks)
    IN  [made EXCEPT !.arrays[made.masks[n].gainDbLayer] = h.arrays[h.masks[r].gainDbLayer],
                     !.arrays[made.masks[n].generativeDbLayer] =
                         h.arrays[h.masks[r].generativeDbLayer]]

(* newMask.applyBrush(...): the layers of mask object r written in place *)
ApplyBrushAt(h, r, frame, bin, brush) ==
    LET after == ApplyBrush(MaskValue(h, r), frame, bin, brush.radiusB, brush.gainDb,
                            brush.isErase, brush.mode)
        withGain == [h EXCEPT !.arrays[h.masks[r].gainDbLayer] = after.gainDbLayer]
    IN  [withGain EXCEPT !.arrays[h.masks[r].generativeDbLayer] = after.generativeDbLayer]

(* Math.round(p + d * i / steps) for cells p, p + d of the grid *)
RoundAlong(p, d, i, steps) == (2 * (p * steps + d * i) + steps) \div (2 * steps)

RECURSIVE RasterizeFrom(_, _, _, _, _, _, _)
(* the loop of rasterizeLine from step i on *)
RasterizeFrom(h, r, p0, p1, i, steps, brush) ==
    IF i > steps THEN h
    ELSE RasterizeFrom(
            ApplyBrushAt(h, r, RoundAlong(p0[1], p1[1] - p0[1], i, steps),
                         RoundAlong(p0[2], p1[2] - p0[2], i, steps), brush),
            r, p0, p1, i + 1, steps, brush)

(* rasterizeLine(p0, p1, apply) *)
RasterizeLine(h, r, p0, p1, brush) ==
    LET steps == Max(Abs(p1[1] - p0[1]), Abs(p1[2] - p0[2]))
    IN  IF steps = 0 THEN ApplyBrushAt(h, r, p0[1], p0[2], brush)
        ELSE RasterizeFrom(h, r, p0, p1, 0, steps, brush)

PaintInit ==
    /\ heap = EmptyHeap /\ appMask = 0 /\ isEditMode = FALSE /\ isPainting = FALSE
    /\ view = NoView /\ lastPointerPos = NoPos /\ emitted = << >> /\ nPointer = 0
    /\ dragOpen = FALSE
    /\ MaskOff /\ EngineOff /\ DisplayOff /\ GlitchOff /\ DebounceOff /\ ParamsOff

(* processAudio: new SpectralMask(frames, bins) and setSpectralMask *)
MaskCreated ==
    /\ appMask = 0
    /\ heap' = Construct(heap, GridF, GridB)
    /\ appMask' = Len(heap.masks) + 1
    /\ UNCHANGED <<isEditMode, isPainting, view, lastPointerPos, emitted, nPointer,
                   dragOpen, otherThanPaint>>

(* the Spectral Edit switch: a click is a discrete event, the state it sets
   is rendered before the next event is handled *)
ToggleEditMode ==
    /\ isEditMode' = ~isEditMode
    /\ view' = [view EXCEPT !.isEditMode = ~isEditMode]
    /\ UNCHANGED <<heap, appMask, isPainting, lastPointerPos, emitted, nPointer,
                   dragOpen, otherThanPaint>>

(* a render of SpectrogramDisplay after a state update made outside a
   discrete event (a pointer-move, the end of processAudio): its handlers
   are made anew with the props and the state of that render *)
Render ==
    /\ view' = [mask |-> appMask, isPainting |-> isPainting, isEditMode |-> isEditMode]
    /\ UNCHANGED <<heap, appMask, isEditMode, isPainting, lastPointerPos, emitted,
                   nPointer, dragOpen, otherThanPaint>>

(* if (!isEditMode || e.button !== 0 || !mask) return *)
DownReturns(v, button) == ~v.isEditMode \/ button # 0 \/ v.mask = 0

(* handlePointerDown for one button, with the handleMaskChange of App it
   calls; pointerdown is a discrete event, so the isPainting and the mask it
   sets are rendered before the next event is handled *)
PointerDown(button) ==
    /\ nPointer < MaxPointerEvents
    /\ nPointer' = nPointer + 1
    /\ dragOpen' = (dragOpen \/ (button = 0 /\ isEditMode /\ appMask # 0))
    /\ \E pos \in PointerCells, brush \in PointerBrushes :
          IF DownReturns(view, button)
          THEN UNCHANGED <<heap, appMask, isPainting, view, lastPointerPos, emitted>>
          ELSE LET cloned == Clone(heap, view.mask)
                   newMask == Len(cloned.masks)
               IN  /\ isPainting' = TRUE
                   /\ lastPointerPos' = pos
                   /\ heap' = ApplyBrushAt(cloned, newMask, pos[1], pos[2], brush)
                   /\ emitted' = Append(emitted, newMask)
                   /\ appMask' = newMask
                   /\ view' = [mask |-> newMask, isPainting |-> TRUE,
                               isEditMode |-> isEditMode]
    /\ UNCHANGED <<isEditMode, otherThanPaint>>

HandlePointerDown == \E button \in Buttons : PointerDown(button)

(* a pointer-move guard that looks at the mask only *)
MoveReturnsWithoutMask(v) == v.mask = 0

(* if (!isPainting || !isEditMode || !mask) return *)
MoveReturns(v) == ~v.isPainting \/ ~v.isEditMode \/ v.mask = 0

(* handlePointerMove, with the handleMaskChange of App it calls; pointermove
   is a continuous event, the mask it sets is rendered by a later Render *)
HandlePointerMove ==
    /\ nPointer < MaxPointerEvents
    /\ nPointer' = nPointer + 1
    /\ \E pos \in PointerCells, brush \in PointerBrushes :
          IF MoveReturns(view)
          THEN UNCHANGED <<heap, appMask, lastPointerPos, emitted>>
          ELSE LET cloned == Clone(heap, view.mask)
                   newMask == Len(cloned.masks)
               IN  /\ heap' = IF lastPointerPos # NoPos
                              THEN RasterizeLine(cloned, newMask, lastPointerPos, pos, brush)
                              ELSE ApplyBrushAt(cloned, newMask, pos[1], pos[2], brush)
                   /\ lastPointerPos' = pos
                   /\ emitted' = Append(emitted, newMask)
                   /\ appMask' = newMask
    /\ UNCHANGED <<isEditMode, isPainting, view, dragOpen, otherThanPaint>>

(* handlePointerUp; pointerup is a discrete event, the isPainting it sets is
   rendered before the next event is handled *)
HandlePointerUp ==
    /\ dragOpen' = FALSE
    /\ IF ~view.isPainting
       THEN UNCHANGED <<isPainting, lastPointerPos, view>>
       ELSE /\ isPainting' = FALSE
            /\ lastPointerPos' = NoPos
            /\ view' = [view EXCEPT !.isPainting = FALSE]
    /\ UNCHANGED <<heap, appMask, isEditMode, emitted, nPointer, otherThanPaint>>

(* onPointerLeave *)
HandlePointerLeave ==
    /\ lastPointerPos' = NoPos
    /\ UNCHANGED <<heap, appMask, isEditMode, isPainting, view, emitted, nPointer,
                   dragOpen, otherThanPaint>>

PaintNext ==
    \/ MaskCreated
    \/ ToggleEditMode
    \/ Render
    \/ HandlePointerDown
    \/ HandlePointerMove
    \/ HandlePointerUp
    \/ HandlePointerLeave

SpecPaint == PaintInit /\ [][PaintNext]_vars

-----------------------------------------------------------------------------
(* Properties of painting, checked under SpecPaint *)

(* C17: every brush edit of the pointer-down and pointer-move handlers is
   applied to a clone of the current mask: each mask object that existed
   before the edit has the same F, B, gain layer and generative layer after
   it, and the mask made by the edit shares no layer array with any of
   them. *)
C17_CloneThenMutate ==
    [][\A r \in DOMAIN heap.masks :
          /\ MaskValue(heap', r) = MaskValue(heap, r)
          /\ \A n \in (DOMAIN heap'.masks) \ (DOMAIN heap.masks) :
                LayerRefs(heap', n) \cap LayerRefs(heap', r) = {}]_vars

(* a pointer-down and a pointer-move have each emitted an edited mask, and
   the mask made by processAudio is still neutral *)
C17_Witness ==
    /\ Len(emitted) >= 2
    /\ MaskValue(heap, 1) = NewMask(GridF, GridB)
    /\ MaskValue(heap, emitted[1]) # NewMask(GridF, GridB)
    /\ MaskValue(heap, emitted[2]) # MaskValue(heap, emitted[1])
    /\ LayerRefs(heap, emitted[2]) \cap LayerRefs(heap, emitted[1]) = {}

(* C29: SpectrogramDisplay emits a mask change only while edit mode is
   enabled and a mask exists, on a primary-button pointer-down or on a
   pointer-move that comes after such a pointer-down and before the
   following pointer-up; every other pointer event, in any order, emits no
   mask change. *)
C29_PaintGating ==
    [][ emitted' # emitted =>
            /\ isEditMode /\ appMask # 0
            /\ \/ PointerDown(0)
               \/ (HandlePointerMove /\ dragOpen) ]_vars

(* a pointer-down and a pointer-move of one drag have each emitted a mask,
   the drag was ended by a pointer-up, and a third pointer event has come
   and emitted nothing, edit mode being on *)
C29_Witness ==
    /\ Len(emitted) = 2 /\ nPointer = 3
    /\ ~dragOpen /\ ~isPainting
    /\ isEditMode /\ appMask = emitted[2]
    /\ MaskValue(heap, emitted[2]) # MaskValue(heap, emitted[1])

(* the mask a pointer-move to pos makes when it draws on mask r *)
MoveDrawnOn(r, pos, brush) ==
    LET cloned == Clone(heap, r)
        newMask == Len(cloned.masks)
        drawn == IF lastPointerPos # NoPos
                 THEN RasterizeLine(cloned, newMask, lastPointerPos, pos, brush)
                 ELSE ApplyBrushAt(cloned, newMask, pos[1], pos[2], brush)
    IN  MaskValue(drawn, newMask)

(* C30: for any interleaving of pointer events with the delivery of the
   updated mask prop, the mask each pointer-move of a drag emits is the mask
   emitted last before it in the drag with the stamps of the move applied
   to it, so it holds every stamp of the masks emitted earlier in the drag
   and the last mask emitted holds all stamps of the drag. *)
C30_NoLostStrokes ==
    [][ (HandlePointerMove /\ emitted' # emitted /\ dragOpen) =>
            \E pos \in PointerCells, brush \in PointerBrushes :
                /\ lastPointerPos' = pos
                /\ MaskValue(heap', appMask') = MoveDrawnOn(appMask, pos, brush) ]_vars

=============================================================================
